---- MODULE Spec2Model ----
(***************************************************************************)
(* Model of dataProcessor.js: the dataset reduction and summarisation      *)
(* engine (processDataForAI, generateDataSummary and their helpers).       *)
(*                                                                         *)
(* A CSV cell is a string; a string is modelled as a sequence of           *)
(* one-character strings so that the regular expressions, parseFloat,      *)
(* JSON.stringify and Date parsing of the code are computed character by   *)
(* character.  A record (one parsed CSV row) is an ordered mapping: a      *)
(* sequence of <<key, value>> pairs in Object.keys order.                  *)
(***************************************************************************)
EXTENDS Integers, Sequences, FiniteSets, TLC

VARIABLES
    data,      \* the dataset handed to the engine by the HTTP layer
    shape,     \* what kind of JavaScript value the dataset argument is
    env,       \* the JavaScript engine's implementation-defined Date parsing
    supplied,  \* the dataset as the caller built it (never assigned again)
    series,    \* the series handed to generateSimpleForecast
    periods,   \* its periods argument
    question,  \* the question handed to isForecastingQuestion
    pc,        \* "start" before the call, "done" after it, "threw" if it threw
    op,        \* which exported function was called
    result,    \* the value the function returned, or the error it threw
    requestCounts,  \* rateLimiter.js: the Map of counters
    now,       \* the clock, in slots of a day
    nextReset, \* when the setInterval timer of resetCounters is next due
    passed,    \* per IP and calendar day, the requests handed on to next()
    response,  \* the response of the middleware to the latest request
    calls,     \* how many calls have returned to the caller so far
    stride,    \* the stride loop: its length, sampleSize, step, i, sampled.length
    conversationMemories,  \* aiProvider.js: the Map from session to memory
    buffers,   \* the exchanges each BufferMemory object holds
    chats,     \* the chatWithAgent calls: session, memory object, position
    cleared    \* per session, the calls that began before its latest clear

vars == <<data, shape, env, supplied, series, periods, question, pc, op, result,
          requestCounts, now, nextReset, passed, response, calls, stride,
          conversationMemories, buffers, chats, cleared>>

\* the arguments of the engine's functions
arguments == <<data, shape, env, supplied, series, periods, question, calls>>

\* the state of a call of one of the engine's functions
call == <<pc, op, result>>

\* the rate limiter and what is recorded of its requests
limiter == <<requestCounts, now, nextReset, passed, response>>

\* the conversation memories and the chats that use them
agent == <<conversationMemories, buffers, chats, cleared>>

(***************************************************************************)
(* Characters and strings                                                  *)
(***************************************************************************)
Digit == {"0", "1", "2", "3", "4", "5", "6", "7", "8", "9"}

UpperCase == {"A", "B", "C", "D", "E", "F", "G", "H", "I", "J", "K", "L", "M",
              "N", "O", "P", "Q", "R", "S", "T", "U", "V", "W", "X", "Y", "Z"}

LowerCase == {"a", "b", "c", "d", "e", "f", "g", "h", "i", "j", "k", "l", "m",
              "n", "o", "p", "q", "r", "s", "t", "u", "v", "w", "x", "y", "z"}

\* the regular expression class \w
WordChar == Digit \cup UpperCase \cup LowerCase \cup {"_"}

\* the characters parseFloat skips in front of the number (StrWhiteSpaceChar)
WhiteSpace == {" ", "\t", "\n", "\r"}

DigitValue(c) ==
    CASE c = "0" -> 0 [] c = "1" -> 1 [] c = "2" -> 2 [] c = "3" -> 3
      [] c = "4" -> 4 [] c = "5" -> 5 [] c = "6" -> 6 [] c = "7" -> 7
      [] c = "8" -> 8 [] c = "9" -> 9

DigitChar(n) ==
    CASE n = 0 -> "0" [] n = 1 -> "1" [] n = 2 -> "2" [] n = 3 -> "3"
      [] n = 4 -> "4" [] n = 5 -> "5" [] n = 6 -> "6" [] n = 7 -> "7"
      [] n = 8 -> "8" [] n = 9 -> "9"

\* s[from..to] as a sequence (empty when from > to)
Slice(s, from, to) == [k \in 1..(to - from + 1) |-> s[from + k - 1]]

AllDigits(s, from, to) == \A k \in from..to : s[k] \in Digit

\* the value of the decimal digits s[from..to]; 0 for an empty range
RECURSIVE DigitsValue(_, _, _)
DigitsValue(s, from, to) ==
    IF to < from THEN 0
    ELSE 10 * DigitsValue(s, from, to - 1) + DigitValue(s[to])

RECURSIVE Pow10(_)
Pow10(n) == IF n <= 0 THEN 1 ELSE 10 * Pow10(n - 1)

\* a row[key] that does not exist: the JavaScript value undefined
Undefined == <<"undefined">>

\* ToString(value), applied by RegExp.prototype.test and by parseFloat
JsToString(value) ==
    IF value = Undefined
    THEN <<"u", "n", "d", "e", "f", "i", "n", "e", "d">>
    ELSE value

(***************************************************************************)
(* parseFloat.  A number is an integer count of 10^-FracDigits units; the  *)
(* cells of the model have at most FracDigits fraction digits and no       *)
(* exponent part, so the count is exact.  NaN is [nan |-> TRUE].           *)
(***************************************************************************)
FracDigits == 2

NaN == [nan |-> TRUE, num |-> 0]

Number(n) == [nan |-> FALSE, num |-> n]

IsNaN(x) == x.nan

\* the number of consecutive decimal digits of s starting at position from
DigitRun(s, from) ==
    LET lens == {k \in 0..(Len(s) - from + 1) : AllDigits(s, from, from + k - 1)}
    IN  CHOOSE k \in lens : \A j \in lens : j <= k

\* the position of the first character of s that is not white space
SkipWhiteSpace(s) ==
    LET rest == {p \in 1..(Len(s) + 1) :
                    \A k \in 1..(p - 1) : s[k] \in WhiteSpace}
    IN  CHOOSE p \in rest : \A q \in rest : q <= p

\* StrDecimalLiteral: the digits before the dot, and up to FracDigits of the
\* fracLen digits after it
ParseDecimal(s, negative, intFrom, intLen, fracLen) ==
    LET dotAt == intFrom + intLen
        kept  == IF fracLen < FracDigits THEN fracLen ELSE FracDigits
        magnitude ==
            DigitsValue(s, intFrom, intFrom + intLen - 1) * Pow10(FracDigits)
            + DigitsValue(s, dotAt + 1, dotAt + kept) * Pow10(FracDigits - kept)
    IN  IF intLen = 0 /\ fracLen = 0 THEN NaN
        ELSE Number(IF negative THEN 0 - magnitude ELSE magnitude)

\* the fraction digits, when a dot follows the intLen integer digits
ParseFraction(s, negative, intFrom, intLen) ==
    LET dotAt  == intFrom + intLen
        hasDot == dotAt <= Len(s) /\ s[dotAt] = "."
    IN  ParseDecimal(s, negative, intFrom, intLen,
                     IF hasDot THEN DigitRun(s, dotAt + 1) ELSE 0)

\* the optional sign at position start, then the integer digits
ParseSigned(s, start) ==
    LET signed == start <= Len(s) /\ s[start] \in {"+", "-"}
    IN  IF signed
        THEN ParseFraction(s, s[start] = "-", start + 1, DigitRun(s, start + 1))
        ELSE ParseFraction(s, FALSE, start, DigitRun(s, start))

ParseFloat(value) == ParseSigned(JsToString(value), SkipWhiteSpace(JsToString(value)))

(***************************************************************************)
(* Column classifier: isDateColumn, isNumericColumn                        *)
(***************************************************************************)
\* /^\d{4}-\d{2}-\d{2}$/   YYYY-MM-DD
MatchIsoDate(s) ==
    /\ Len(s) = 10
    /\ AllDigits(s, 1, 4) /\ s[5] = "-"
    /\ AllDigits(s, 6, 7) /\ s[8] = "-"
    /\ AllDigits(s, 9, 10)

\* /^\d{2}\/\d{2}\/\d{4}$/   MM/DD/YYYY
MatchUsDate(s) ==
    /\ Len(s) = 10
    /\ AllDigits(s, 1, 2) /\ s[3] = "/"
    /\ AllDigits(s, 4, 5) /\ s[6] = "/"
    /\ AllDigits(s, 7, 10)

\* /^\d{1,2}\/\d{1,2}\/\d{2,4}$/   M/D/YY or M/D/YYYY
MatchShortDate(s) ==
    \E m \in 1..2, d \in 1..2, y \in 2..4 :
        /\ Len(s) = m + 1 + d + 1 + y
        /\ AllDigits(s, 1, m) /\ s[m + 1] = "/"
        /\ AllDigits(s, m + 2, m + 1 + d) /\ s[m + d + 2] = "/"
        /\ AllDigits(s, m + d + 3, m + d + 2 + y)

\* /^\w+ \d{1,2},? \d{4}$/   Month DD, YYYY
MatchMonthDate(s) ==
    \E w \in 1..Len(s), d \in 1..2, c \in 0..1 :
        /\ Len(s) = w + 1 + d + c + 1 + 4
        /\ \A k \in 1..w : s[k] \in WordChar
        /\ s[w + 1] = " "
        /\ AllDigits(s, w + 2, w + 1 + d)
        /\ c = 1 => s[w + d + 2] = ","
        /\ s[w + d + c + 2] = " "
        /\ AllDigits(s, w + d + c + 3, w + d + c + 6)

\* datePatterns.some(pattern => pattern.test(value))
MatchesDatePattern(value) ==
    LET s == JsToString(value)
    IN  MatchIsoDate(s) \/ MatchUsDate(s) \/ MatchShortDate(s) \/ MatchMonthDate(s)

isDateColumn(values) ==
    \E k \in 1..Len(values) : MatchesDatePattern(values[k])

\* !isNaN(parseFloat(value)) && value !== '' && value !== null
\* (a CSV cell is a string or, for a missing key, undefined: never null)
IsNumericValue(value) ==
    /\ ~IsNaN(ParseFloat(value))
    /\ value # <<>>

isNumericColumn(values) ==
    \E k \in 1..Len(values) : IsNumericValue(values[k])

(***************************************************************************)
(* Records                                                                 *)
(***************************************************************************)
\* Object.keys(row)
ObjectKeys(row) == [k \in 1..Len(row) |-> row[k][1]]

HasKey(row, key) == \E k \in 1..Len(row) : row[k][1] = key

\* row[key]
Get(row, key) ==
    IF HasKey(row, key)
    THEN row[CHOOSE k \in 1..Len(row) : row[k][1] = key][2]
    ELSE Undefined

\* data.slice(0, count)
SliceHead(d, count) == [k \in 1..(IF Len(d) < count THEN Len(d) ELSE count) |-> d[k]]

\* data.slice(-count)
Last(d, count) ==
    LET n == IF Len(d) < count THEN Len(d) ELSE count
    IN  [k \in 1..n |-> d[Len(d) - n + k]]

(***************************************************************************)
(* generateDataSummary                                                     *)
(***************************************************************************)
ClassifySample == 10

\* SampleValues without the slice: every row of the dataset
SampleValuesOfAllRows(d, key) == [k \in 1..Len(d) |-> Get(d[k], key)]

\* data.slice(0, 10).map(row => row[key])
SampleValues(d, key) ==
    LET head == SliceHead(d, ClassifySample)
    IN  [k \in 1..Len(head) |-> Get(head[k], key)]

\* the keys pushed to summary.dateColumns
DateColumnsOf(d) ==
    SelectSeq(ObjectKeys(d[1]),
              LAMBDA key : isDateColumn(SampleValues(d, key)))

\* NumericColumnsOf with a plain if in place of the else-if
NumericColumnsWithoutElse(d) ==
    SelectSeq(ObjectKeys(d[1]),
              LAMBDA key : isNumericColumn(SampleValues(d, key)))

\* the keys pushed to summary.numericColumns (the else-if branch)
NumericColumnsOf(d) ==
    SelectSeq(ObjectKeys(d[1]),
              LAMBDA key : /\ ~isDateColumn(SampleValues(d, key))
                           /\ isNumericColumn(SampleValues(d, key)))

\* the keys pushed to summary.categoricalColumns (the final else branch)
CategoricalColumnsOf(d) ==
    SelectSeq(ObjectKeys(d[1]),
              LAMBDA key : /\ ~isDateColumn(SampleValues(d, key))
                           /\ ~isNumericColumn(SampleValues(d, key)))

SeqRange(s) == {s[i] : i \in 1..Len(s)}

\* the same sequence with every element evaluated
Listed(s) == SelectSeq(s, LAMBDA x : TRUE)

\* NumericValues taken from the classifier's sample instead of all of data
NumericValuesOfSample(d, col) ==
    LET head   == SliceHead(d, ClassifySample)
        parsed == [i \in 1..Len(head) |-> ParseFloat(Get(head[i], col))]
        valid  == SelectSeq(parsed, LAMBDA v : ~IsNaN(v))
    IN  Listed([i \in 1..Len(valid) |-> valid[i].num])

\* data.map(row => parseFloat(row[col])).filter(v => !isNaN(v)), as numbers
NumericValues(d, col) ==
    LET parsed == [i \in 1..Len(d) |-> ParseFloat(Get(d[i], col))]
        valid  == SelectSeq(parsed, LAMBDA v : ~IsNaN(v))
    IN  Listed([i \in 1..Len(valid) |-> valid[i].num])

\* Math.min(...values), Math.max(...values), over s[lo..hi]
RECURSIVE MinRange(_, _, _)
MinRange(s, lo, hi) ==
    IF lo = hi THEN s[lo]
    ELSE LET mid   == (lo + hi) \div 2
             left  == MinRange(s, lo, mid)
             right == MinRange(s, mid + 1, hi)
         IN  IF left <= right THEN left ELSE right

RECURSIVE MaxRange(_, _, _)
MaxRange(s, lo, hi) ==
    IF lo = hi THEN s[lo]
    ELSE LET mid   == (lo + hi) \div 2
             left  == MaxRange(s, lo, mid)
             right == MaxRange(s, mid + 1, hi)
         IN  IF left >= right THEN left ELSE right

MathMin(values) == MinRange(values, 1, Len(values))

MathMax(values) == MaxRange(values, 1, Len(values))

\* values.reduce((a, b) => a + b, 0), summed over s[lo..hi]
RECURSIVE SumRange(_, _, _)
SumRange(s, lo, hi) ==
    IF lo > hi THEN 0
    ELSE IF lo = hi THEN s[lo]
    ELSE LET mid == (lo + hi) \div 2
         IN  SumRange(s, lo, mid) + SumRange(s, mid + 1, hi)

\* one entry of summary.numericStats; avg is the exact quotient num / den
NumericStat(values) ==
    [min   |-> MathMin(values),
     max   |-> MathMax(values),
     avg   |-> [num |-> SumRange(values, 1, Len(values)), den |-> Len(values)],
     count |-> Len(values)]

\* summary.numericStats: the numeric columns that have at least one value
NumericStatsOf(d, numericColumns) ==
    LET valuesOf == [k \in 1..Len(numericColumns) |->
                        [col |-> numericColumns[k],
                         values |-> NumericValues(d, numericColumns[k])]]
        withValues == SelectSeq(valuesOf, LAMBDA c : Len(c.values) > 0)
    IN  [col \in {withValues[k].col : k \in 1..Len(withValues)} |->
            NumericStat((CHOOSE c \in SeqRange(withValues) : c.col = col).values)]

\* the object {} returned for an empty dataset
EmptyObject == <<>>

\* generateDataSummary without its first line: the summary is built for the
\* empty dataset too, from Object.keys(data[0] || {})
generateDataSummaryUnguarded(d) ==
    IF Len(d) = 0
    THEN [totalRecords       |-> 0,
          columns            |-> <<>>,
          dateColumns        |-> <<>>,
          numericColumns     |-> <<>>,
          categoricalColumns |-> <<>>,
          numericStats       |-> <<>>]
    ELSE LET numericColumns == NumericColumnsOf(d)
         IN  [totalRecords       |-> Len(d),
              columns            |-> ObjectKeys(d[1]),
              dateColumns        |-> DateColumnsOf(d),
              numericColumns     |-> numericColumns,
              categoricalColumns |-> CategoricalColumnsOf(d),
              numericStats       |-> NumericStatsOf(d, numericColumns)]

generateDataSummary(d) ==
    IF Len(d) = 0 THEN EmptyObject
    ELSE LET numericColumns == NumericColumnsOf(d)
         IN  [totalRecords       |-> Len(d),
              columns            |-> ObjectKeys(d[1]),
              dateColumns        |-> DateColumnsOf(d),
              numericColumns     |-> numericColumns,
              categoricalColumns |-> CategoricalColumnsOf(d),
              numericStats       |-> NumericStatsOf(d, numericColumns)]

(***************************************************************************)
(* new Date(value).getTime().  Timestamps are counted in minutes since the *)
(* epoch (the modelled dates have no seconds), NaN for an invalid date.    *)
(* The date-only ISO forms are fixed by ECMAScript and are UTC.  Every     *)
(* other string is parsed by implementation-defined heuristics: env.tz is  *)
(* the local time zone (minutes east of UTC) those formats are read in,    *)
(* and env.lenient says whether the engine's fallback also accepts a bare  *)
(* number ("12" is December 2001 in V8) or rejects it.                     *)
(***************************************************************************)
MinutesPerDay == 24 * 60

IsLeapYear(y) == (y % 4 = 0 /\ y % 100 # 0) \/ y % 400 = 0

DaysInMonth(y, m) ==
    IF m = 2 THEN (IF IsLeapYear(y) THEN 29 ELSE 28)
    ELSE IF m \in {4, 6, 9, 11} THEN 30 ELSE 31

\* days from 1970-01-01 to the civil date y-m-d (proleptic Gregorian)
DaysFromCivil(y, m, d) ==
    LET yy  == IF m <= 2 THEN y - 1 ELSE y
        era == yy \div 400
        yoe == yy - era * 400
        mp  == IF m > 2 THEN m - 3 ELSE m + 9
        doy == (153 * mp + 2) \div 5 + d - 1
        doe == yoe * 365 + yoe \div 4 - yoe \div 100 + doy
    IN  era * 146097 + doe - 719468

\* YYYY, YYYY-MM, YYYY-MM-DD: midnight UTC, or NaN for a date that does not exist
ParseIsoDate(s) ==
    LET y == DigitsValue(s, 1, 4)
        m == IF Len(s) >= 7 THEN DigitsValue(s, 6, 7) ELSE 1
        d == IF Len(s) = 10 THEN DigitsValue(s, 9, 10) ELSE 1
    IN  IF m \in 1..12 /\ d \in 1..DaysInMonth(y, m)
        THEN Number(DaysFromCivil(y, m, d) * MinutesPerDay)
        ELSE NaN

IsIsoDateForm(s) ==
    \/ Len(s) = 4 /\ AllDigits(s, 1, 4)
    \/ Len(s) = 7 /\ AllDigits(s, 1, 4) /\ s[5] = "-" /\ AllDigits(s, 6, 7)
    \/ MatchIsoDate(s)

\* two-digit years: 0..49 are 2000..2049, 50..99 are 1950..1999
FullYear(y, digits) ==
    IF digits > 2 THEN y ELSE IF y < 50 THEN 2000 + y ELSE 1900 + y

\* midnight local time of y-m-d; a day past the end of the month rolls over
LocalMidnight(y, m, d, tz) ==
    Number((DaysFromCivil(y, m, 1) + d - 1) * MinutesPerDay - tz)

\* M/D/YY, M/D/YYYY, MM/DD/YYYY
ParseSlashDate(s, tz) ==
    LET mLen == DigitRun(s, 1)
        dLen == DigitRun(s, mLen + 2)
        yLen == DigitRun(s, mLen + dLen + 3)
        m == DigitsValue(s, 1, mLen)
        d == DigitsValue(s, mLen + 2, mLen + dLen + 1)
        y == DigitsValue(s, mLen + dLen + 3, Len(s))
    IN  IF m \in 1..12 /\ d \in 1..31
        THEN LocalMidnight(FullYear(y, yLen), m, d, tz)
        ELSE NaN

ToLower(c) ==
    CASE c = "A" -> "a" [] c = "B" -> "b" [] c = "C" -> "c" [] c = "D" -> "d"
      [] c = "E" -> "e" [] c = "F" -> "f" [] c = "G" -> "g" [] c = "H" -> "h"
      [] c = "I" -> "i" [] c = "J" -> "j" [] c = "K" -> "k" [] c = "L" -> "l"
      [] c = "M" -> "m" [] c = "N" -> "n" [] c = "O" -> "o" [] c = "P" -> "p"
      [] c = "Q" -> "q" [] c = "R" -> "r" [] c = "S" -> "s" [] c = "T" -> "t"
      [] c = "U" -> "u" [] c = "V" -> "v" [] c = "W" -> "w" [] c = "X" -> "x"
      [] c = "Y" -> "y" [] c = "Z" -> "z" [] OTHER -> c

MonthNames ==
    << <<"j", "a", "n">>, <<"f", "e", "b">>, <<"m", "a", "r">>, <<"a", "p", "r">>,
       <<"m", "a", "y">>, <<"j", "u", "n">>, <<"j", "u", "l">>, <<"a", "u", "g">>,
       <<"s", "e", "p">>, <<"o", "c", "t">>, <<"n", "o", "v">>, <<"d", "e", "c">> >>

\* the month a word names by its first three letters, 0 for no month
MonthIndex(word) ==
    LET prefix == [k \in 1..3 |-> ToLower(word[k])]
    IN  IF Len(word) >= 3 /\ \E m \in 1..12 : MonthNames[m] = prefix
        THEN CHOOSE m \in 1..12 : MonthNames[m] = prefix
        ELSE 0

\* Month D, YYYY and Month D YYYY
ParseMonthDate(s, tz) ==
    LET spaces == {w \in 1..(Len(s) - 1) : s[w + 1] = " "}
        wLen  == CHOOSE w \in spaces : \A v \in spaces : w <= v
        dLen  == DigitRun(s, wLen + 2)
        m     == MonthIndex(Slice(s, 1, wLen))
        d     == DigitsValue(s, wLen + 2, wLen + dLen + 1)
        y     == DigitsValue(s, Len(s) - 3, Len(s))
    IN  IF m \in 1..12 /\ d \in 1..31
        THEN LocalMidnight(y, m, d, tz)
        ELSE NaN

\* a bare number of up to three digits read by a lenient fallback parser:
\* 1..12 is that month of 2001, 32..49 the year 2032..2049, 50..99 the year
\* 1950..1999, three digits are the year itself
ParseBareNumber(s, tz) ==
    LET n == DigitsValue(s, 1, Len(s))
    IN  IF Len(s) = 3 THEN LocalMidnight(n, 1, 1, tz)
        ELSE IF n \in 1..12 THEN LocalMidnight(2001, n, 1, tz)
        ELSE IF n \in 32..99 THEN LocalMidnight(FullYear(n, 2), 1, 1, tz)
        ELSE NaN

DateParse(s, e) ==
    IF IsIsoDateForm(s) THEN ParseIsoDate(s)
    ELSE IF MatchUsDate(s) \/ MatchShortDate(s) THEN ParseSlashDate(s, e.tz)
    ELSE IF MatchMonthDate(s) THEN ParseMonthDate(s, e.tz)
    ELSE IF e.lenient /\ Len(s) \in 1..3 /\ AllDigits(s, 1, Len(s))
         THEN ParseBareNumber(s, e.tz)
    ELSE NaN

\* getDateValue: the time of the first field that parses as a date, else 0
getDateValue(row, e) ==
    LET First(parses) ==
            IF parses = {} THEN 0
            ELSE DateParse(row[CHOOSE k \in parses :
                                   \A j \in parses : k <= j][2], e).num
    IN  First({k \in 1..Len(row) : ~IsNaN(DateParse(row[k][2], e))})

(***************************************************************************)
(* Sampling: timeBasedSampling, the stride loop, removeDuplicates          *)
(***************************************************************************)
\* SortByDate with the comparator dateB - dateA
SortByDateDescending(d, e) ==
    LET Ordered(sorted) == Listed([k \in 1..Len(d) |-> d[sorted[k][2]]])
    IN  Ordered(SortSeq(Listed([i \in 1..Len(d) |-> <<getDateValue(d[i], e), i>>]),
                        LAMBDA a, b : a[1] > b[1] \/ (a[1] = b[1] /\ a[2] < b[2])))

\* [...data].sort((a, b) => getDateValue(a) - getDateValue(b)): the sort is
\* stable, so it orders the records by time and, within one time, by their
\* position in data
SortByDate(d, e) ==
    LET Ordered(sorted) == Listed([k \in 1..Len(d) |-> d[sorted[k][2]]])
    IN  Ordered(SortSeq(Listed([i \in 1..Len(d) |-> <<getDateValue(d[i], e), i>>]),
                        LAMBDA a, b : a[1] < b[1] \/ (a[1] = b[1] /\ a[2] < b[2])))

\* StepOf with the operands exchanged
StepOfSwapped(length, sampleSize) == sampleSize \div length

\* StepOf rounding up
StepOfCeil(length, sampleSize) == (length + sampleSize - 1) \div sampleSize

\* Math.floor(dataLength / sampleSize)
StepOf(length, sampleSize) == length \div sampleSize

\* StridePush without the test of sampled.length
StridePushUnguarded(source, sampleSize, step, sampled, k) ==
    Append(sampled, source[k * step + 1])

\* one pass of  for (i = 0; i < length; i += step): pass number k has
\* i = k * step, and pushes source[i] while fewer than sampleSize are held
StridePush(source, sampleSize, step, sampled, k) ==
    IF Len(sampled) < sampleSize
    THEN Append(sampled, source[k * step + 1])
    ELSE sampled

\* the passes first..last of the loop, in order, starting from sampled
RECURSIVE StridePasses(_, _, _, _, _, _)
StridePasses(source, sampleSize, step, sampled, first, last) ==
    IF first > last THEN sampled
    ELSE IF first = last THEN StridePush(source, sampleSize, step, sampled, first)
    ELSE LET mid  == (first + last) \div 2
             done == StridePasses(source, sampleSize, step, sampled, first, mid)
         IN  IF Len(done) >= 0
             THEN StridePasses(source, sampleSize, step, done, mid + 1, last)
             ELSE done

\* StrideSample with the loop started at i = step
StrideSampleSkippingFirst(source, sampleSize, step) ==
    LET passes == (Len(source) + step - 1) \div step
    IN  StridePasses(source, sampleSize, step, <<>>, 1, passes - 1)

\* the whole loop: i takes the values 0, step, 2 * step, ... below length
StrideSample(source, sampleSize, step) ==
    LET passes == (Len(source) + step - 1) \div step
    IN  StridePasses(source, sampleSize, step, <<>>, 0, passes - 1)

timeBasedSampling(d, sampleSize, e) ==
    LET Sampled(sortedData) ==
            StrideSample(sortedData, sampleSize, StepOf(Len(sortedData), sampleSize))
    IN  Sampled(SortByDate(d, e))

\* hasDateColumn
hasDateColumn(d) ==
    /\ Len(d) > 0
    /\ \E k \in 1..Len(d[1]) :
           isDateColumn(SampleValues(d, ObjectKeys(d[1])[k]))

\* JSON.stringify of a string: quoted, with quote, backslash and the control
\* characters escaped
EscapeChar(c) ==
    CASE c = "\"" -> <<"\\", "\"">>
      [] c = "\\" -> <<"\\", "\\">>
      [] c = "\n" -> <<"\\", "n">>
      [] c = "\r" -> <<"\\", "r">>
      [] c = "\t" -> <<"\\", "t">>
      [] OTHER    -> <<c>>

RECURSIVE EscapeFrom(_, _)
EscapeFrom(s, k) ==
    IF k > Len(s) THEN <<>> ELSE EscapeChar(s[k]) \o EscapeFrom(s, k + 1)

QuoteString(s) == <<"\"">> \o EscapeFrom(s, 1) \o <<"\"">>

\* "key":"value" for the fields k.. of the row, separated by commas; a key is
\* kept as one token
RECURSIVE JsonFields(_, _)
JsonFields(row, k) ==
    IF k > Len(row) THEN <<>>
    ELSE (IF k > 1 THEN <<",">> ELSE <<>>)
         \o <<"\"", row[k][1], "\"", ":">> \o QuoteString(row[k][2])
         \o JsonFields(row, k + 1)

\* JSON.stringify(item)
JsonStringify(row) == <<"{">> \o JsonFields(row, 1) \o <<"}">>

\* DedupVisit without seen.add(key)
DedupVisitForgetful(items, acc, k) ==
    LET key == JsonStringify(items[k])
    IN  IF key \in acc.seen THEN acc
        ELSE [seen |-> acc.seen, kept |-> Append(acc.kept, items[k])]

\* the filter callback of removeDuplicates on item k
DedupVisit(items, acc, k) ==
    LET key == JsonStringify(items[k])
    IN  IF key \in acc.seen THEN acc
        ELSE [seen |-> acc.seen \cup {key}, kept |-> Append(acc.kept, items[k])]

\* the callback applied to items first..last, in order
RECURSIVE DedupPasses(_, _, _, _)
DedupPasses(items, acc, first, last) ==
    IF first > last THEN acc
    ELSE IF first = last THEN DedupVisit(items, acc, first)
    ELSE LET mid  == (first + last) \div 2
             done == DedupPasses(items, acc, first, mid)
         IN  IF Len(done.kept) >= 0
             THEN DedupPasses(items, done, mid + 1, last)
             ELSE done

removeDuplicates(items) ==
    DedupPasses(items, [seen |-> {}, kept |-> <<>>], 1, Len(items)).kept

(***************************************************************************)
(* processDataForAI                                                        *)
(***************************************************************************)
SmallDataLimit == 100

MaxSampleSize == 2000

RecentCount == 20

\* the sample before the recent records are appended
\* SampledData taking the stride sample of the original order always
SampledDataStratified(d, e) ==
    LET sampleSize == IF MaxSampleSize < Len(d) THEN MaxSampleSize ELSE Len(d)
    IN  StrideSample(d, sampleSize, StepOf(Len(d), sampleSize))

SampledData(d, e) ==
    LET sampleSize == IF MaxSampleSize < Len(d) THEN MaxSampleSize ELSE Len(d)
    IN  IF hasDateColumn(d)
        THEN timeBasedSampling(d, sampleSize, e)
        ELSE StrideSample(d, sampleSize, StepOf(Len(d), sampleSize))

\* WithRecent without the recent records
WithoutRecent(d, e) == SampledData(d, e)

\* [...sampledData, ...recentData]
WithRecent(d, e) == SampledData(d, e) \o Last(d, RecentCount)

\* processDataForAI with the sizes taken before removeDuplicates
processDataForAISizedEarly(d, e) ==
    IF Len(d) <= SmallDataLimit
    THEN [fullData   |-> d,
          summary    |-> generateDataSummary(d),
          sampleSize |-> Len(d)]
    ELSE LET combined == WithRecent(d, e)
         IN  [fullData     |-> removeDuplicates(combined),
              summary      |-> generateDataSummary(d),
              sampleSize   |-> Len(combined),
              totalRecords |-> Len(d)]

\* processDataForAI with dataLength < 100 as the small-data test
processDataForAIStrictLimit(d, e) ==
    IF Len(d) < SmallDataLimit
    THEN [fullData   |-> d,
          summary    |-> generateDataSummary(d),
          sampleSize |-> Len(d)]
    ELSE LET sampledData == removeDuplicates(WithRecent(d, e))
         IN  [fullData     |-> sampledData,
              summary      |-> generateDataSummary(d),
              sampleSize   |-> Len(sampledData),
              totalRecords |-> Len(d)]

\* processDataForAI with the summary computed from the sample
processDataForAISummaryOfSample(d, e) ==
    IF Len(d) <= SmallDataLimit
    THEN [fullData   |-> d,
          summary    |-> generateDataSummary(d),
          sampleSize |-> Len(d)]
    ELSE LET sampledData == removeDuplicates(WithRecent(d, e))
         IN  [fullData     |-> sampledData,
              summary      |-> generateDataSummary(sampledData),
              sampleSize   |-> Len(sampledData),
              totalRecords |-> Len(d)]

processDataForAI(d, e) ==
    IF Len(d) <= SmallDataLimit
    THEN [fullData   |-> d,
          summary    |-> generateDataSummary(d),
          sampleSize |-> Len(d)]
    ELSE LET Result(sampledData) ==
                 [fullData     |-> sampledData,
                  summary      |-> generateDataSummary(d),
                  sampleSize   |-> Len(sampledData),
                  totalRecords |-> Len(d)]
         IN  Result(removeDuplicates(WithRecent(d, e)))

\* DataAfterTimeBasedSampling with data.sort(...) in place of [...data].sort(...)
DataAfterSortInPlace(d, sampleSize, e) == Listed(SortByDate(d, e))

\* the caller's array after timeBasedSampling(data, sampleSize): [...data] is
\* a copy, and sort reorders the copy
DataAfterTimeBasedSampling(d, sampleSize, e) == d

\* the caller's array after processDataForAI(data, question): slice, filter
\* and the spread build new arrays, push fills a new one
DataAfterProcessDataForAI(d, e) ==
    IF Len(d) <= SmallDataLimit THEN d
    ELSE IF hasDateColumn(d)
    THEN DataAfterTimeBasedSampling(d, IF Len(d) < MaxSampleSize THEN Len(d)
                                       ELSE MaxSampleSize, e)
    ELSE d

\* the caller's array after generateDataSummary(data): slice and map build
\* new arrays
DataAfterGenerateDataSummary(d) == d

(***************************************************************************)
(* The dataset argument as a JavaScript value.  shape "rows" is an array   *)
(* of records, and data holds it.  The other shapes are values that are    *)
(* not datasets; of those the functions read only length, data[0], the own *)
(* keys of the elements and their properties, so data holds that view:     *)
(*   "numbers"    an array of numbers; a number has no own keys, so each   *)
(*                element is the record of no fields                       *)
(*   "string"     a string; its elements are its characters, and the one   *)
(*                own key of a character c is "0", with c["0"] = c         *)
(*   "null", "undefined", "number", "object"                               *)
(*                null, undefined, a number such as 42 and the plain       *)
(*                object {}: no elements, data is empty                    *)
(***************************************************************************)
ArrayShapes == {"rows", "numbers"}

OtherShapes == {"numbers", "string", "null", "undefined", "number", "object"}

\* !data
Falsy(s) == s \in {"null", "undefined"}

\* data.length throws a TypeError: null and undefined have no properties
LengthThrows(s) == s \in {"null", "undefined"}

\* data.length is a number; it is undefined for a number and for {}
LengthDefined(s) == s \in ArrayShapes \cup {"string"}

Returns(value) == [threw |-> FALSE, value |-> value]

Throws(error) == [threw |-> TRUE, value |-> <<error>>]

\* the summary built when data.length and data[0] are undefined
SummaryOfNothing ==
    [totalRecords       |-> Undefined,
     columns            |-> <<>>,
     dateColumns        |-> <<>>,
     numericColumns     |-> <<>>,
     categoricalColumns |-> <<>>,
     numericStats       |-> <<>>]

\* generateDataSummary(data) for a data of any shape
GenerateDataSummaryOutcome(s, d) ==
    IF Falsy(s) THEN Returns(EmptyObject)
    ELSE IF ~LengthDefined(s) THEN Returns(SummaryOfNothing)
    ELSE IF Len(d) = 0 THEN Returns(EmptyObject)
    \* data.slice(0, 10) of a string is a string, which has no map
    ELSE IF s = "string" THEN Throws("TypeError")
    ELSE Returns(generateDataSummary(d))

\* processDataForAI(data, question) for a data of any shape; the arrays of
\* numbers and the strings of the model have at most 100 elements
ProcessDataForAIOutcome(s, d, e) ==
    IF s = "rows" THEN Returns(processDataForAI(d, e))
    ELSE IF LengthThrows(s) THEN Throws("TypeError")
    \* undefined <= 100 is false, and hasDateColumn reads Object.keys(data[0])
    \* of an undefined data[0]
    ELSE IF ~LengthDefined(s) THEN Throws("TypeError")
    ELSE LET Small(summary) ==
                 IF summary.threw THEN summary
                 ELSE Returns([fullData   |-> d,
                               summary    |-> summary.value,
                               sampleSize |-> Len(d)])
         IN  Small(GenerateDataSummaryOutcome(s, d))

(***************************************************************************)
(* generateSimpleForecast.  An element of the series is a record           *)
(* [type, fields, text, num]: type is the element's typeof ("null" for     *)
(* null), fields the record of an object, text the characters of a string  *)
(* and num the value of a number.  The field values of an object are       *)
(* strings, as parseFloat applies ToString to a number first.  A quotient  *)
(* (the trend, a forecast) is the exact fraction [num, den] of counts of   *)
(* 10^-FracDigits units, den > 0; the series of the model hold whole       *)
(* numbers and halves, whose sums binary floating point holds exactly.     *)
(***************************************************************************)
MinSeriesLength == 2

MediumCount == 6

HighCount == 12

\* the value null that generateSimpleForecast returns
Null == [null |-> TRUE]

\* FirstNumericField with the loop not returning at its first hit
LastNumericField(fields) ==
    LET parsed == [k \in 1..Len(fields) |-> ParseFloat(fields[k][2])]
        hits   == {k \in 1..Len(fields) : ~IsNaN(parsed[k])}
    IN  IF hits = {} THEN Number(0)
        ELSE parsed[CHOOSE k \in hits : \A j \in hits : k >= j]

\* the first field of the object whose value parses as a number, else 0
FirstNumericField(fields) ==
    LET parsed == [k \in 1..Len(fields) |-> ParseFloat(fields[k][2])]
        hits   == {k \in 1..Len(fields) : ~IsNaN(parsed[k])}
    IN  IF hits = {} THEN Number(0)
        ELSE parsed[CHOOSE k \in hits : \A j \in hits : k <= j]

\* parseFloat(d) || 0: NaN and 0 are falsy
ParseFloatOrZero(text) ==
    LET v == ParseFloat(text)
    IN  IF IsNaN(v) \/ v.num = 0 THEN Number(0) ELSE v

\* the callback of data.map: the number one element d contributes
ForecastValue(d) ==
    IF d.type = "object" THEN FirstNumericField(d.fields)
    ELSE IF d.type = "string" THEN ParseFloatOrZero(d.text)
    ELSE IF d.type = "number" THEN d.num
    ELSE Number(0)

\* the callback of filter
Usable(v) == ~IsNaN(v) /\ v.num > 0

\* data.map(...).filter(v => !isNaN(v) && v > 0), as numbers
NumbersOf(kept) == Listed([i \in 1..Len(kept) |-> kept[i].num])

UsableValues(s) ==
    NumbersOf(SelectSeq([i \in 1..Len(s) |-> ForecastValue(s[i])], Usable))

\* TrendOf with the halves split at Math.ceil(values.length / 2)
TrendOfCeilSplit(values) ==
    LET half      == (Len(values) + 1) \div 2
        firstLen  == half
        secondLen == Len(values) - half
        firstSum  == SumRange(values, 1, half)
        secondSum == SumRange(values, half + 1, Len(values))
    IN  [num |-> (secondSum * firstLen) - (firstSum * secondLen),
         den |-> firstLen * secondLen]

\* secondAvg - firstAvg, the halves split at Math.floor(values.length / 2)
TrendOf(values) ==
    LET half      == Len(values) \div 2
        firstLen  == half
        secondLen == Len(values) - half
        firstSum  == SumRange(values, 1, half)
        secondSum == SumRange(values, half + 1, Len(values))
    IN  [num |-> (secondSum * firstLen) - (firstSum * secondLen),
         den |-> firstLen * secondLen]

\* Math.max(0, lastValue + trend * (i + 1)) for i + 1 = step
ForecastAt(lastValue, trend, step) ==
    LET num == (lastValue * trend.den) + (trend.num * step)
    IN  [num |-> IF num > 0 THEN num ELSE 0, den |-> trend.den]

\* ConfidenceOf without the test of the trend
ConfidenceOfCountAlone(count, trend) ==
    LET low    == "low"
        medium == IF count >= MediumCount THEN "medium" ELSE low
    IN  IF count >= HighCount THEN "high" ELSE medium

\* confidence: 'low', then 'medium', then 'high'
ConfidenceOf(count, trend) ==
    LET low    == "low"
        medium == IF count >= MediumCount THEN "medium" ELSE low
    IN  IF count >= HighCount /\ trend.num # 0 THEN "high" ELSE medium

\* ForecastOfValues asking for more than 2 usable values
ForecastOfMoreThanTwo(values, count) ==
    IF Len(values) <= MinSeriesLength THEN Null
    ELSE LET trend     == TrendOf(values)
             lastValue == values[Len(values)]
         IN  [forecast   |-> [i \in 1..count |-> ForecastAt(lastValue, trend, i)],
              trend      |-> trend,
              confidence |-> ConfidenceOf(Len(values), trend),
              lastValue  |-> lastValue,
              periods    |-> count]

\* generateSimpleForecast from the usable values on
ForecastOfValues(values, count) ==
    IF Len(values) < MinSeriesLength THEN Null
    ELSE LET trend     == TrendOf(values)
             lastValue == values[Len(values)]
         IN  [forecast   |-> [i \in 1..count |-> ForecastAt(lastValue, trend, i)],
              trend      |-> trend,
              confidence |-> ConfidenceOf(Len(values), trend),
              lastValue  |-> lastValue,
              periods    |-> count]

generateSimpleForecast(s, count) ==
    IF Len(s) < MinSeriesLength THEN Null
    ELSE ForecastOfValues(UsableValues(s), count)

(***************************************************************************)
(* isForecastingQuestion                                                   *)
(***************************************************************************)
forecastingKeywords ==
    << <<"f", "o", "r", "e", "c", "a", "s", "t">>,
       <<"p", "r", "e", "d", "i", "c", "t">>,
       <<"f", "u", "t", "u", "r", "e">>,
       <<"n", "e", "x", "t", " ", "m", "o", "n", "t", "h">>,
       <<"n", "e", "x", "t", " ", "q", "u", "a", "r", "t", "e", "r">>,
       <<"n", "e", "x", "t", " ", "y", "e", "a", "r">>,
       <<"t", "r", "e", "n", "d">>,
       <<"p", "r", "o", "j", "e", "c", "t", "i", "o", "n">>,
       <<"w", "i", "l", "l", " ", "b", "e">>,
       <<"g", "o", "i", "n", "g", " ", "t", "o">>,
       <<"e", "x", "p", "e", "c", "t">>,
       <<"l", "i", "k", "e", "l", "y">>,
       <<"f", "o", "r", "e", "c", "a", "s", "t", "i", "n", "g">>,
       <<"p", "r", "e", "d", "i", "c", "t", "i", "o", "n">>,
       <<"u", "p", "c", "o", "m", "i", "n", "g">>,
       <<"f", "o", "r", "t", "h", "c", "o", "m", "i", "n", "g">> >>

\* question.toLowerCase(), for the characters of the model
ToLowerCase(s) == [k \in 1..Len(s) |-> ToLower(s[k])]

\* s.includes(word)
Includes(s, word) ==
    \E at \in 0..(Len(s) - Len(word)) :
        \A k \in 1..Len(word) : s[at + k] = word[k]

\* isForecastingQuestion matching the question as it was typed
isForecastingQuestionCaseSensitive(q) ==
    \E k \in 1..Len(forecastingKeywords) : Includes(q, forecastingKeywords[k])

isForecastingQuestion(q) ==
    LET lowerQuestion == ToLowerCase(q)
    IN  \E k \in 1..Len(forecastingKeywords) :
            Includes(lowerQuestion, forecastingKeywords[k])

(***************************************************************************)
(* rateLimiter.js.  Time is counted in slots, SlotsPerDay to a calendar    *)
(* day.  requestCounts maps a key `${ip}-${today}` to its counter; a key   *)
(* the Map does not hold reads as 0 (requestCounts.get(key) || 0), so the  *)
(* Map is a function on every key and clear() sets every counter to 0.     *)
(***************************************************************************)
MaxRequests == 2     \* the maxRequests the middleware is built with
SlotsPerDay == 2     \* the slots of one calendar day
MaxTime == 4         \* the last slot of a run

Ips == {"ip1", "ip2"}

Days == 0..(MaxTime \div SlotsPerDay)

Keys == Ips \X Days

\* new Date().toDateString(): the calendar day of slot t
Today(t) == t \div SlotsPerDay

\* `${ip}-${today}`
KeyOf(ip, t) == <<ip, Today(t)>>

\* getNextMidnight(): the first slot of the next calendar day
getNextMidnight(t) == (Today(t) + 1) * SlotsPerDay

\* requestCounts.clear()
NoCounts == [key \in Keys |-> 0]

checkRateLimit(counts, ip, maxRequests, t) ==
    LET currentCount == counts[KeyOf(ip, t)]
    IN  IF currentCount >= maxRequests
        THEN [allowed |-> FALSE, remaining |-> 0, total |-> maxRequests,
              resetTime |-> getNextMidnight(t)]
        ELSE [allowed |-> TRUE, remaining |-> maxRequests - currentCount - 1,
              total |-> maxRequests, resetTime |-> getNextMidnight(t)]

\* requestCounts after incrementCount(ip)
\* incrementCount with the key made of the date alone
incrementCountOfDay(counts, ip, t) ==
    [key \in DOMAIN counts |->
        IF key[2] = Today(t) THEN counts[key] + 1 ELSE counts[key]]

incrementCount(counts, ip, t) ==
    [counts EXCEPT ![KeyOf(ip, t)] = counts[KeyOf(ip, t)] + 1]

\* requestCounts after resetCounters()
resetCounters(counts) == NoCounts

(***************************************************************************)
(* The datasets and engines the model is run on                            *)
(***************************************************************************)
MaxSmallLen == 2      \* every dataset of up to this many rows over SmallRows
MaxExtra == 0         \* lengths up to this far past each branch boundary
TzMinutes == 300      \* the local time zones are UTC and UTC + TzMinutes

\* the decimal digits of n >= 0
RECURSIVE DecimalString(_)
DecimalString(n) ==
    IF n < 10 THEN <<DigitChar(n)>>
    ELSE Append(DecimalString(n \div 10), DigitChar(n % 10))

TwoDigits(n) == <<DigitChar(n \div 10), DigitChar(n % 10)>>

IsoDateString(y, m, d) ==
    DecimalString(y) \o <<"-">> \o TwoDigits(m) \o <<"-">> \o TwoDigits(d)

UsDateString(y, m, d) ==
    TwoDigits(m) \o <<"/">> \o TwoDigits(d) \o <<"/">> \o DecimalString(y)

Cells ==
    { <<>>,
      <<"a", "b", "c">>,
      <<"1", "2">>,
      <<"3", ".", "5">>,
      <<"-", "4">>,
      <<"7", "x">>,
      <<" ", "8">>,
      <<"2", "0", "2", "4", "-", "0", "1", "-", "0", "5">>,
      <<"1", "/", "2", "/", "2", "4">>,
      <<"J", "a", "n", " ", "5", ",", " ", "2", "0", "2", "4">> }

\* one-column rows over every cell, a row that lacks the column, and
\* two-column rows
SmallRows ==
    {<< <<"value", c>> >> : c \in Cells}
    \cup { << <<"name", <<"a", "b", "c">> >> >> }
    \cup { << <<"name", <<"a", "b", "c">> >>, <<"value", c>> >> :
              c \in { <<"1", "2">>, <<"2", "0", "2", "4", "-", "0", "1", "-", "0", "5">> } }

SmallDatasets ==
    UNION {[1..n -> SmallRows] : n \in 0..MaxSmallLen}

\* count rows: the first `first` are row a, the others row b
SwitchData(count, first, a, b) ==
    [i \in 1..count |-> IF i <= first THEN a ELSE b]

SwitchDatasets ==
    {SwitchData(ClassifySample + 1 + x, ClassifySample - y, a, b) :
        x \in 0..MaxExtra, y \in 0..1, a \in SmallRows, b \in SmallRows}

\* the large datasets: count rows, laid out by kind
BigRow(kind, count, i) ==
    CASE kind = "same" ->
           << <<"name", <<"a", "b", "c">> >>, <<"value", <<"1", "2">> >> >>
      [] kind = "sameDate" ->
           << <<"day", IsoDateString(2024, 1, 5)>>, <<"value", <<"1", "2">> >> >>
      [] kind = "indexed" ->
           << <<"id", DecimalString(i)>>,
              <<"amount", DecimalString((i * 37) % 101)>> >>
      [] kind = "dated" ->
           << <<"day", IsoDateString(2024, 1 + (((i - 1) * 12) \div count),
                                     28 - ((count - i) % 28))>>,
              <<"id", DecimalString(i)>> >>
      [] kind = "idDated" ->
           << <<"id", DecimalString(i % 150)>>,
              <<"day", UsDateString(2023 + (i % 2), 1 + (i % 12), 1 + ((i \div 12) % 28))>>,
              <<"note", IF i % 3 = 0 THEN IsoDateString(2024, 3, 1 + (i % 9))
                        ELSE <<"a", "b", "c">> >> >>
      [] kind = "periodic" ->
           << <<"sku", DecimalString(i % 7)>>,
              <<"price", DecimalString((i % 3) * 5) \o <<".", DigitChar((i % 2) * 5)>> >> >>
      \* rows without a date, rows dated before 1970 and rows sharing a date
      [] kind = "mixedEra" ->
           << <<"day", IF i % 3 = 0 THEN <<"n", "/", "a">>
                       ELSE IF i % 3 = 1 THEN IsoDateString(1969, 12, 1 + (i % 28))
                       ELSE IsoDateString(2024, 1, 1 + (i % 5))>>,
              <<"tag", <<"r">> \o DecimalString(i)>> >>

BigKinds == {"same", "sameDate", "indexed", "dated", "idDated", "periodic", "mixedEra"}

\* the kinds whose rows are all different
DistinctKinds == {"indexed", "dated"}

BigData(kind, count) == [i \in 1..count |-> BigRow(kind, count, i)]

\* the lengths at the small-data limit and just past the sample cap; past the
\* cap by more than the recent records for the kinds of distinct rows and for
\* the rows that repeat; past twice the cap for the kinds of distinct rows
BigLengths(kind) ==
    {base + x : base \in {SmallDataLimit, SmallDataLimit + 1, MaxSampleSize + 1}
                         \cup (IF kind \in DistinctKinds \cup {"periodic"}
                               THEN {MaxSampleSize + RecentCount + 1}
                               ELSE {})
                         \cup (IF kind \in DistinctKinds
                               THEN {2 * MaxSampleSize + 1}
                               ELSE {}),
                x \in 0..MaxExtra}

BigDatasets ==
    UNION {{BigData(kind, count) : count \in BigLengths(kind)} : kind \in BigKinds}

Datasets == SmallDatasets \cup SwitchDatasets \cup BigDatasets

Envs == {[tz |-> t, lenient |-> l] : t \in {0, TzMinutes}, l \in BOOLEAN}

\* Date parsing is reached only from timeBasedSampling, that is for a large
\* dataset with a date column, and getDateValue stops at a first field in the
\* standard format: the engines differ only when some row has another first
\* field
ReadsBeyondIso(row) ==
    LET first == row[1][2]
    IN  ~(IsIsoDateForm(first) /\ ~IsNaN(ParseIsoDate(first)))

EnvsFor(d) ==
    IF /\ Len(d) > SmallDataLimit
       /\ hasDateColumn(d)
       /\ \E i \in 1..Len(d) : ReadsBeyondIso(d[i])
    THEN Envs
    ELSE {[tz |-> 0, lenient |-> FALSE]}

(***************************************************************************)
(* The series and questions the model is run on                            *)
(***************************************************************************)
MaxShortLen == 3     \* every series of up to this many elements
MaxPeriods == 3      \* periods from 0 up to this

\* the whole number n
Whole(n) == Number(n * Pow10(FracDigits))

NumberElement(v) == [type |-> "number", fields |-> <<>>, text |-> <<>>, num |-> v]

StringElement(s) == [type |-> "string", fields |-> <<>>, text |-> s, num |-> NaN]

ObjectElement(row) == [type |-> "object", fields |-> row, text |-> <<>>, num |-> NaN]

NullElement == [type |-> "null", fields |-> <<>>, text |-> <<>>, num |-> NaN]

\* a dataset handed to generateSimpleForecast
AsSeries(d) == [i \in 1..Len(d) |-> ObjectElement(d[i])]

Elements ==
    { NumberElement(Whole(5)), NumberElement(Whole(0)), NumberElement(Whole(0 - 3)),
      NumberElement(NaN),
      StringElement(<<"1", "2">>), StringElement(<<"a", "b", "c">>),
      ObjectElement(<< <<"name", <<"a", "b", "c">> >>, <<"value", <<"3", ".", "5">> >>,
                       <<"other", <<"1", "2">> >> >>),
      ObjectElement(<< <<"name", <<"a", "b", "c">> >> >>),
      NullElement }

ShortSeries == UNION {[1..n -> Elements] : n \in 0..MaxShortLen}

\* element i of a series of n elements, laid out by kind
SeriesElement(kind, n, i) ==
    CASE kind = "flat"    -> NumberElement(Whole(10))
      [] kind = "rising"  -> NumberElement(Whole(10 + i))
      [] kind = "falling" -> NumberElement(Whole((n - i) + 5))
      [] kind = "mirror"  -> NumberElement(Whole(IF i % 2 = 1 THEN 10 ELSE 20))
      [] kind = "gaps"    ->
           IF i % 2 = 1 THEN StringElement(DecimalString(10 + i))
           ELSE IF i % 4 = 0 THEN NullElement
           ELSE NumberElement(Whole(0))
      [] kind = "records" ->
           ObjectElement(<< <<"month", <<"J", "a", "n">> >>,
                            <<"sales", DecimalString(10 + i + (7 * (i % 3)))>>,
                            <<"cost", <<"7">> >> >>)

SeriesKinds == {"flat", "rising", "falling", "mirror", "gaps", "records"}

\* the lengths around the two confidence thresholds, of the series and of
\* its usable half
SeriesLengths ==
    {MediumCount - 1, MediumCount, (2 * MediumCount) - 2, HighCount - 1, HighCount,
     HighCount + 1, (2 * HighCount) - 2, 2 * HighCount}

LongSeries ==
    {[i \in 1..n |-> SeriesElement(kind, n, i)] : kind \in SeriesKinds, n \in SeriesLengths}

\* [100, 120, 110, 130, 140, 150, 160, 170]
ExampleSeries ==
    [i \in 1..8 |-> NumberElement(Whole(
        CASE i = 1 -> 100 [] i = 2 -> 120 [] i = 3 -> 110 [] i = 4 -> 130
          [] i = 5 -> 140 [] i = 6 -> 150 [] i = 7 -> 160 [] i = 8 -> 170))]

SeriesInputs == ShortSeries \cup LongSeries \cup {ExampleSeries}

\* the character c in upper case
ToUpper(c) ==
    IF \E u \in UpperCase : ToLower(u) = c
    THEN CHOOSE u \in UpperCase : ToLower(u) = c
    ELSE c

\* the word in one of three letter cases
Cased(word, form) ==
    CASE form = "lower" -> word
      [] form = "upper" -> [k \in 1..Len(word) |-> ToUpper(word[k])]
      [] form = "title" -> [k \in 1..Len(word) |-> IF k = 1 THEN ToUpper(word[k])
                                                    ELSE word[k]]

TestQuestions ==
    { <<"W", "h", "a", "t", " ", "w", "i", "l", "l", " ", "b", "e", " ",
        "m", "y", " ", "s", "a", "l", "e", "s", " ", "n", "e", "x", "t", " ",
        "m", "o", "n", "t", "h", "?">>,
      <<"C", "a", "n", " ", "y", "o", "u", " ", "f", "o", "r", "e", "c",
        "a", "s", "t", " ", "m", "y", " ", "r", "e", "v", "e", "n", "u", "e",
        " ", "f", "o", "r", " ", "t", "h", "e", " ", "n", "e", "x", "t", " ",
        "q", "u", "a", "r", "t", "e", "r", "?">>,
      <<"S", "h", "o", "w", " ", "m", "e", " ", "s", "a", "l", "e", "s",
        " ", "t", "r", "e", "n", "d", "s">>,
      <<"P", "r", "e", "d", "i", "c", "t", " ", "f", "u", "t", "u", "r",
        "e", " ", "s", "a", "l", "e", "s">>,
      <<"W", "h", "a", "t", " ", "a", "r", "e", " ", "m", "y", " ", "c",
        "u", "r", "r", "e", "n", "t", " ", "s", "a", "l", "e", "s", "?">>,
      <<"A", "n", "a", "l", "y", "z", "e", " ", "m", "y", " ", "d", "a",
        "t", "a">>,
      <<"W", "h", "a", "t", " ", "i", "s", " ", "t", "h", "e", " ", "t",
        "r", "e", "n", "d", " ", "i", "n", " ", "m", "y", " ", "s", "a", "l",
        "e", "s", "?">>,
      <<"W", "h", "a", "t", " ", "w", "i", "l", "l", " ", "s", "a", "l",
        "e", "s", " ", "b", "e", " ", "n", "e", "x", "t", " ", "q", "u", "a",
        "r", "t", "e", "r", "?">>,
      <<"S", "h", "o", "w", " ", "m", "e", " ", "t", "o", "t", "a", "l",
        " ", "s", "a", "l", "e", "s">> }

\* every keyword, in three letter cases, alone and inside a sentence
KeywordQuestions ==
    {around[1] \o Cased(forecastingKeywords[k], form) \o around[2] :
        k \in 1..Len(forecastingKeywords),
        form \in {"lower", "upper", "title"},
        around \in { << <<>>, <<>> >>,
                     << <<"m", "y", " ">>, <<"?">> >>,
                     << <<"x">>, <<"y">> >> }}

\* every keyword short of its first or of its last character, or split
BrokenKeywordQuestions ==
    UNION {{Slice(forecastingKeywords[k], 2, Len(forecastingKeywords[k])),
            Slice(forecastingKeywords[k], 1, Len(forecastingKeywords[k]) - 1),
            Slice(forecastingKeywords[k], 1, 3) \o <<"-">>
                \o Slice(forecastingKeywords[k], 4, Len(forecastingKeywords[k]))} :
           k \in 1..Len(forecastingKeywords)}

Questions == TestQuestions \cup KeywordQuestions \cup BrokenKeywordQuestions \cup {<<>>}

(***************************************************************************)
(* The state machines.  Each specification runs one part of the program    *)
(* and holds the variables of the other parts still.                       *)
(***************************************************************************)
\* what data holds of a value that is no dataset: [1, 2], "abc", and nothing
\* of the values without elements
ViewOf(s) ==
    CASE s = "numbers" -> << <<>>, <<>> >>
      [] s = "string"  -> << << <<"0", <<"a">> >> >>, << <<"0", <<"b">> >> >>,
                             << <<"0", <<"c">> >> >> >>
      [] OTHER         -> <<>>

NoCall == pc = "start" /\ op = "none" /\ result = EmptyObject /\ calls = 0

NoDataset ==
    /\ data = <<>> /\ shape = "rows" /\ supplied = <<>>
    /\ env = [tz |-> 0, lenient |-> FALSE]

NoSeries == series = <<>> /\ periods = 0

NoQuestion == question = <<>>

NoResponse == [ip |-> "none", status |-> 0, remaining |-> 0, before |-> 0]

NoLimiter ==
    /\ requestCounts = NoCounts /\ now = 0 /\ nextReset = 0
    /\ passed = NoCounts /\ response = NoResponse

\* no stride loop is running
NoStride ==
    stride = [strategy |-> "none", length |-> 0, sampleSize |-> 0, step |-> 0,
              i |-> 0, sampled |-> 0, pc |-> "idle"]

Sessions == {"A", "B"}

\* no session has a memory, no chat has begun, no clear has happened
NoAgent ==
    /\ conversationMemories = <<>> /\ buffers = <<>> /\ chats = <<>>
    /\ cleared = [s \in Sessions |-> [began |-> {}, pending |-> FALSE]]

\* the HTTP layer has parsed a dataset, or a caller hands over another value
Init ==
    /\ \/ shape = "rows" /\ data \in Datasets
       \/ shape \in OtherShapes /\ data = ViewOf(shape)
    /\ supplied = data
    /\ env \in EnvsFor(data)
    /\ NoSeries /\ NoQuestion /\ NoCall /\ NoLimiter /\ NoStride /\ NoAgent

\* processDataForAI(data, question); the question is never read
CallProcessDataForAI ==
    /\ pc = "start"
    /\ \E outcome \in {ProcessDataForAIOutcome(shape, data, env)} :
           /\ result' = outcome.value
           /\ pc' = IF outcome.threw THEN "threw" ELSE "done"
    /\ op' = "processDataForAI"
    /\ data' = IF shape = "rows" THEN DataAfterProcessDataForAI(data, env) ELSE data
    /\ UNCHANGED <<shape, env, supplied, series, periods, question, calls, limiter, stride, agent>>

CallGenerateDataSummary ==
    /\ pc = "start"
    /\ \E outcome \in {GenerateDataSummaryOutcome(shape, data)} :
           /\ result' = outcome.value
           /\ pc' = IF outcome.threw THEN "threw" ELSE "done"
    /\ op' = "generateDataSummary"
    /\ data' = DataAfterGenerateDataSummary(data)
    /\ UNCHANGED <<shape, env, supplied, series, periods, question, calls, limiter, stride, agent>>

Next == CallProcessDataForAI \/ CallGenerateDataSummary

Spec == Init /\ [][Next]_vars

\* generateSimpleForecast(data, periods)
ForecastInit ==
    /\ series \in SeriesInputs
    /\ periods \in 0..MaxPeriods
    /\ NoDataset /\ NoQuestion /\ NoCall /\ NoLimiter /\ NoStride /\ NoAgent

\* the series after generateSimpleForecast(data, periods): map, filter and
\* slice build new arrays
SeriesAfterGenerateSimpleForecast(s) == s

CallGenerateSimpleForecast ==
    /\ pc = "start"
    /\ result' = generateSimpleForecast(series, periods)
    /\ op' = "generateSimpleForecast"
    /\ pc' = "done"
    /\ series' = SeriesAfterGenerateSimpleForecast(series)
    /\ UNCHANGED <<data, shape, env, supplied, periods, question, calls, limiter, stride, agent>>

ForecastNext == CallGenerateSimpleForecast

ForecastSpec == ForecastInit /\ [][ForecastNext]_vars

\* isForecastingQuestion(question)
QuestionInit ==
    /\ question \in Questions
    /\ NoDataset /\ NoSeries /\ NoCall /\ NoLimiter /\ NoStride /\ NoAgent

CallIsForecastingQuestion ==
    /\ pc = "start"
    /\ result' = isForecastingQuestion(question)
    /\ op' = "isForecastingQuestion"
    /\ pc' = "done"
    /\ UNCHANGED <<arguments, limiter, stride, agent>>

QuestionNext == CallIsForecastingQuestion

QuestionSpec == QuestionInit /\ [][QuestionNext]_vars

\* Several requests work on one dataset, one call after another: a
\* function runs to its return before the next one starts.  series is the
\* same array as data, handed to generateSimpleForecast.
MaxCalls == 2        \* the calls made on one dataset

\* the kinds whose first numeric field is small: the sums of the forecast of
\* a large dataset stay exact
ReentrantKinds == {"same", "indexed", "idDated", "periodic"}

ReentrantDatasets ==
    SmallDatasets \cup {BigData(kind, SmallDataLimit + 1) : kind \in ReentrantKinds}

ReentrantInit ==
    /\ shape = "rows" /\ data \in ReentrantDatasets
    /\ supplied = data
    /\ env \in EnvsFor(data)
    /\ series = AsSeries(data) /\ periods = MaxPeriods
    /\ NoQuestion /\ NoCall /\ NoLimiter /\ NoStride /\ NoAgent

\* the caller takes the result; another call may follow
Return ==
    /\ pc \in {"done", "threw"}
    /\ calls < MaxCalls - 1
    /\ pc' = "start" /\ op' = "none" /\ result' = EmptyObject
    /\ calls' = calls + 1
    /\ UNCHANGED <<data, shape, env, supplied, series, periods, question, limiter, stride, agent>>

ReentrantNext ==
    \/ CallProcessDataForAI
    \/ CallGenerateDataSummary
    \/ CallGenerateSimpleForecast
    \/ Return

ReentrantSpec == ReentrantInit /\ [][ReentrantNext]_vars

\* rateLimitMiddleware(maxRequests) behind setInterval(resetCounters, 24h).
\* The module is loaded at some time of day, and the timer is due every
\* SlotsPerDay slots from then on.
RateLimitInit ==
    /\ now \in 0..(SlotsPerDay - 1)
    /\ nextReset = now + SlotsPerDay
    /\ requestCounts = NoCounts /\ passed = NoCounts /\ response = NoResponse
    /\ NoDataset /\ NoSeries /\ NoQuestion /\ NoCall /\ NoStride /\ NoAgent

\* one request of ip through the middleware.  checkRateLimit and
\* incrementCount each read the clock: midnight may pass between the two
\* (later > now).
RateLimitMiddleware ==
    /\ \E ip \in Ips, later \in now..(IF now < MaxTime /\ now < nextReset
                                       THEN now + 1 ELSE now) :
           LET limitCheck == checkRateLimit(requestCounts, ip, MaxRequests, now)
           IN  IF ~limitCheck.allowed
               THEN /\ later = now
                    /\ response' = [ip |-> ip, status |-> 429, remaining |-> 0,
                                    before |-> passed[KeyOf(ip, now)]]
                    /\ UNCHANGED <<requestCounts, now, nextReset, passed>>
               ELSE /\ requestCounts' = incrementCount(requestCounts, ip, later)
                    /\ now' = later
                    /\ passed' = [passed EXCEPT ![KeyOf(ip, later)] = @ + 1]
                    /\ response' = [ip |-> ip, status |-> 200,
                                    remaining |-> limitCheck.remaining,
                                    before |-> passed[KeyOf(ip, later)]]
                    /\ UNCHANGED nextReset
    /\ UNCHANGED <<arguments, call, stride, agent>>

\* the setInterval timer fires: resetCounters()
ResetCounters ==
    /\ now >= nextReset
    /\ requestCounts' = resetCounters(requestCounts)
    /\ nextReset' = nextReset + SlotsPerDay
    /\ UNCHANGED <<now, passed, response, arguments, call, stride, agent>>

\* time passes; a timer that is due fires first
Tick ==
    /\ now < MaxTime
    /\ now < nextReset
    /\ now' = now + 1
    /\ UNCHANGED <<requestCounts, nextReset, passed, response, arguments, call, stride, agent>>

RateLimitNext == RateLimitMiddleware \/ ResetCounters \/ Tick

RateLimitSpec == RateLimitInit /\ [][RateLimitNext]_vars

(***************************************************************************)
(* The stride loop of the two sampling strategies, one pass at a time.     *)
(* Lengths stand for datasets: the loop reads only data.length,            *)
(* sampleSize, step, i and sampled.length.                                 *)
(***************************************************************************)
StrideSpan == 30       \* how many lengths just past the small-data limit
StrideNear == 2        \* how far around each multiple of the sample cap
MaxStrideFactor == 3   \* the multiples of the sample cap

StrideStrategies == {"stratified", "timeBased"}

StrideLengths ==
    {SmallDataLimit}
    \cup ((SmallDataLimit + 1)..(SmallDataLimit + StrideSpan))
    \cup {k * MaxSampleSize + x - StrideNear :
              k \in 1..MaxStrideFactor, x \in 0..(2 * StrideNear)}

\* processDataForAI is called on a dataset of some length
StrideInit ==
    /\ \E strategy \in StrideStrategies, length \in StrideLengths :
           stride = [strategy |-> strategy, length |-> length, sampleSize |-> 0,
                     step |-> 0, i |-> 0, sampled |-> 0, pc |-> "start"]
    /\ NoDataset /\ NoSeries /\ NoQuestion /\ NoCall /\ NoLimiter /\ NoAgent

\* the small-data return, or sampleSize and step and the loop's  let i = 0
StrideEnter ==
    /\ stride.pc = "start"
    /\ IF stride.length <= SmallDataLimit
       THEN stride' = [stride EXCEPT !.pc = "small"]
       ELSE \E sampleSize \in {IF MaxSampleSize < stride.length
                                 THEN MaxSampleSize ELSE stride.length} :
                stride' = [stride EXCEPT
                              !.sampleSize = sampleSize,
                              !.step = StepOf(stride.length, sampleSize),
                              !.pc = "loop"]
    /\ UNCHANGED <<arguments, call, limiter, agent>>

\* one pass: the test i < length held, the guarded push, then i += step
StrideLoop ==
    /\ stride.pc = "loop"
    /\ stride.i < stride.length
    /\ stride' = [stride EXCEPT
                     !.sampled = IF stride.sampled < stride.sampleSize
                                 THEN stride.sampled + 1 ELSE stride.sampled,
                     !.i = stride.i + stride.step]
    /\ UNCHANGED <<arguments, call, limiter, agent>>

\* the test i < length fails: the loop is left
StrideExit ==
    /\ stride.pc = "loop"
    /\ stride.i >= stride.length
    /\ stride' = [stride EXCEPT !.pc = "done"]
    /\ UNCHANGED <<arguments, call, limiter, agent>>

StrideNext == StrideEnter \/ StrideLoop \/ StrideExit

StrideSpec == StrideInit /\ [][StrideNext]_vars

\* the loop is synchronous code: once entered it runs on until it is left
StrideLiveSpec == StrideSpec /\ WF_vars(StrideNext)

(***************************************************************************)
(* aiProvider.js: the conversation memories.  conversationMemories maps a  *)
(* session that has an entry to its BufferMemory object; objects are       *)
(* numbered in the order of their creation and buffers[m] lists the        *)
(* exchanges saved into object m, each named by the chat that saved it.    *)
(* cleared is history kept for the properties: the chats begun before the  *)
(* latest clear of a session, and whether a chat has begun on it since; a   *)
(* chat is late when it saved its exchange after a clear that followed its *)
(* beginning.                                                              *)
(***************************************************************************)
MaxChats == 3          \* chatWithAgent calls in one behaviour

\* conversationMemories.delete(sessionId) left out
clearConversationMemoryKeepingEntry(memories, sessionId) == memories

\* conversationMemories.delete(sessionId)
clearConversationMemory(memories, sessionId) ==
    [s \in (DOMAIN memories) \ {sessionId} |-> memories[s]]

\* getConversationMemory: the map and the objects after the call, and the
\* object it returns
getConversationMemory(memories, objects, sessionId) ==
    IF sessionId \notin DOMAIN memories
    THEN [memories |-> [s \in (DOMAIN memories) \cup {sessionId} |->
                           IF s = sessionId THEN Len(objects) + 1 ELSE memories[s]],
          objects  |-> Append(objects, <<>>),
          memory   |-> Len(objects) + 1]
    ELSE [memories |-> memories, objects |-> objects,
          memory   |-> memories[sessionId]]

AgentInit ==
    /\ NoAgent
    /\ NoDataset /\ NoSeries /\ NoQuestion /\ NoCall /\ NoLimiter /\ NoStride

\* chatWithAgent up to  await model.invoke(messages): the memory object is
\* taken, its history is loaded, and the request is sent.  No timer or
\* network callback runs between these steps.
ChatBegin ==
    /\ Len(chats) < MaxChats
    /\ \E sessionId \in Sessions :
           \E got \in {getConversationMemory(conversationMemories, buffers, sessionId)} :
               /\ conversationMemories' = got.memories
               /\ buffers' = got.objects
               /\ chats' = Append(chats, [session |-> sessionId,
                                          memory  |-> got.memory,
                                          history |-> got.objects[got.memory],
                                          late    |-> FALSE,
                                          pc      |-> "invoking"])
               /\ cleared' = [cleared EXCEPT ![sessionId].pending = FALSE]
    /\ UNCHANGED <<arguments, call, limiter, stride>>

\* the model's response arrives: memory.saveContext on the object the call
\* took when it began
ChatRespond ==
    /\ \E c \in 1..Len(chats) :
           /\ chats[c].pc = "invoking"
           /\ buffers' = [buffers EXCEPT ![chats[c].memory] = Append(@, c)]
           /\ chats' = [chats EXCEPT
                            ![c].pc = "done",
                            ![c].late = c \in cleared[chats[c].session].began]
    /\ UNCHANGED <<conversationMemories, cleared, arguments, call, limiter, stride>>

\* model.invoke rejects: the catch block logs and rethrows, nothing is saved
ChatFail ==
    /\ \E c \in 1..Len(chats) :
           /\ chats[c].pc = "invoking"
           /\ chats' = [chats EXCEPT ![c].pc = "failed"]
    /\ UNCHANGED <<conversationMemories, buffers, cleared, arguments, call, limiter, stride>>

\* clearConversationMemory(sessionId) is called and returns
ClearConversationMemory ==
    /\ \E sessionId \in Sessions :
           /\ conversationMemories' =
                  clearConversationMemory(conversationMemories, sessionId)
           /\ cleared' = [cleared EXCEPT ![sessionId] =
                             [began |-> 1..Len(chats), pending |-> TRUE]]
    /\ UNCHANGED <<buffers, chats, arguments, call, limiter, stride>>

AgentNext == ChatBegin \/ ChatRespond \/ ChatFail \/ ClearConversationMemory

AgentSpec == AgentInit /\ [][AgentNext]_vars

(***************************************************************************)
(* Properties                                                              *)
(***************************************************************************)
\* reduce, and summarize, has returned from a call on a dataset
Reduced == pc = "done" /\ op = "processDataForAI" /\ shape = "rows"

Summarized == pc = "done" /\ op = "generateDataSummary" /\ shape = "rows"

Min2(a, b) == IF a <= b THEN a ELSE b

Max2(a, b) == IF a >= b THEN a ELSE b

\* cap = min(2000, len(dataset))
Cap == Min2(MaxSampleSize, Len(data))

\* C1: for a dataset of at most 100 records, reduce returns
\* sampleSize = totalRecords = len(dataset) and the input dataset itself as
\* the sampled records.
C1_SmallDatasetReturnedWhole ==
    (Reduced /\ Len(data) <= SmallDataLimit) =>
        /\ "totalRecords" \in DOMAIN result
        /\ result.sampleSize = Len(data)
        /\ result.totalRecords = Len(data)
        /\ result.fullData = data

\* C2: for a dataset of more than 100 records, sampleSize is at most
\* min(2000, len) + 20 and totalRecords = len, in either sampling strategy.
C2_SampleSizeBound ==
    (Reduced /\ Len(data) > SmallDataLimit) =>
        /\ result.sampleSize <= Cap + RecentCount
        /\ result.totalRecords = Len(data)

\* the bound of C2 is met: a sample of exactly 2000 + 20 records
C2_Witness ==
    /\ Reduced
    /\ Len(data) > SmallDataLimit
    /\ result.sampleSize = MaxSampleSize + RecentCount

\* C3 as stated: sampleSize = len(sampledRecords) and sampleSize is at most
\* max(cap, 20): the recent records never push the sample above the cap.
C3_SampleWithinCap ==
    Reduced =>
        /\ result.sampleSize = Len(result.fullData)
        /\ result.sampleSize <= Max2(Cap, RecentCount)

\* C3 as amended: sampleSize = len(sampledRecords) and sampleSize is at most
\* cap + 20; the sample stays within the cap for datasets of up to 2000
\* records, and only beyond that can the recent records push it above.
C3_SampleWithinCapPlusRecent ==
    Reduced =>
        /\ result.sampleSize = Len(result.fullData)
        /\ result.sampleSize <= Cap + RecentCount
        /\ Len(data) <= MaxSampleSize => result.sampleSize <= Cap

\* the recent records have pushed a sample above the cap
C3_Witness ==
    /\ Reduced
    /\ Len(data) > MaxSampleSize
    /\ result.sampleSize = Len(result.fullData)
    /\ result.sampleSize > Cap

\* C4: for a dataset of more than 100 records, each of the last 20 records
\* of the input has an equal record among the sampled records.
C4_RecentRecordsKept ==
    (Reduced /\ Len(data) > SmallDataLimit) =>
        \A k \in (Len(data) - RecentCount + 1)..Len(data) :
            \E j \in 1..Len(result.fullData) : result.fullData[j] = data[k]

\* time-ordered sampling passed over the last input record, and it is among
\* the sampled records all the same, after the stride sample
C4_Witness ==
    /\ Reduced
    /\ Len(data) > MaxSampleSize
    /\ hasDateColumn(data)
    /\ \A j \in 1..MaxSampleSize : result.fullData[j] # data[Len(data)]
    /\ \E j \in (MaxSampleSize + 1)..Len(result.fullData) :
           result.fullData[j] = data[Len(data)]

\* the position of the first element of s equal to x
FirstIndex(s, x) ==
    CHOOSE i \in 1..Len(s) : s[i] = x /\ \A j \in 1..(i - 1) : s[j] # x

\* C5: when deduplication runs, no two sampled records are equal, and the
\* sampled records are the stride sample followed by the recent records with
\* every record that equals an earlier one removed: the same records, each
\* once, in the order of their first occurrences.
C5_FirstOccurrencesInOrder ==
    (Reduced /\ Len(data) > SmallDataLimit) =>
        LET combined == Listed(WithRecent(data, env))
            kept     == result.fullData
        IN  /\ Cardinality(SeqRange(kept)) = Len(kept)
            /\ SeqRange(kept) = SeqRange(combined)
            /\ \A k \in 1..(Len(kept) - 1) :
                   FirstIndex(combined, kept[k]) < FirstIndex(combined, kept[k + 1])

\* deduplication removed records and kept more than one
C5_Witness ==
    /\ Reduced
    /\ Len(data) > SmallDataLimit
    /\ Len(result.fullData) > 1
    /\ Len(result.fullData) < Len(WithRecent(data, env))

AllSame(d) == \A i \in 1..Len(d) : d[i] = d[1]

\* C6 as stated: a non-empty dataset of identical records is reduced to
\* exactly one record, whatever its length.
C6_IdenticalRecordsToOne ==
    (Reduced /\ Len(data) >= 1 /\ AllSame(data)) =>
        /\ result.fullData = <<data[1]>>
        /\ result.sampleSize = 1

\* C6 as amended: a dataset of more than 100 identical records is reduced to
\* exactly one record; one of at most 100 is returned whole.
C6_IdenticalRecordsToOneWhenLarge ==
    (Reduced /\ Len(data) >= 1 /\ AllSame(data)) =>
        IF Len(data) > SmallDataLimit
        THEN result.fullData = <<data[1]>> /\ result.sampleSize = 1
        ELSE result.fullData = data /\ result.sampleSize = Len(data)

\* a large dataset of identical dated records reduced to one record
C6_Witness ==
    /\ Reduced
    /\ Len(data) > MaxSampleSize
    /\ hasDateColumn(data)
    /\ AllSame(data)
    /\ result.sampleSize = 1

\* how many times x occurs in s
Occurrences(s, x) == Cardinality({k \in 1..Len(s) : s[k] = x})

\* C7: for a non-empty dataset the columns of the summary are the keys of
\* the first record in order, and every column is in exactly one of
\* dateColumns, numericColumns, categoricalColumns, which hold nothing else.
C7_ColumnsPartitioned ==
    (Summarized /\ Len(data) >= 1) =>
        /\ Len(result.columns) = Len(data[1])
        /\ \A k \in 1..Len(data[1]) : result.columns[k] = data[1][k][1]
        /\ \A k \in 1..Len(result.columns) :
               Occurrences(result.dateColumns, result.columns[k])
               + Occurrences(result.numericColumns, result.columns[k])
               + Occurrences(result.categoricalColumns, result.columns[k]) = 1
        /\ SeqRange(result.dateColumns) \cup SeqRange(result.numericColumns)
               \cup SeqRange(result.categoricalColumns) = SeqRange(result.columns)

\* a date column whose cells also parse as numbers, beside a numeric column
C7_Witness ==
    /\ Summarized
    /\ Len(data) >= 1
    /\ result.numericColumns # <<>>
    /\ \E k \in 1..Len(result.dateColumns) :
           IsNumericValue(Get(data[1], result.dateColumns[k]))

\* the rows of data whose cell in column col parses as a number
ParseableRows(col) ==
    {i \in 1..Len(data) : ~IsNaN(ParseFloat(Get(data[i], col)))}

\* C8 as stated: for every dataset the summary reduce returns is the summary
\* of the whole dataset, not of the sample: it is summarize(dataset), its
\* totalRecords is len(dataset) and its statistics count the values of every
\* record.
C8_SummaryOfWholeDataset ==
    Reduced =>
        /\ result.summary = generateDataSummary(data)
        /\ {"totalRecords", "numericStats"} \subseteq DOMAIN result.summary
        /\ result.summary.totalRecords = Len(data)
        /\ \A col \in DOMAIN result.summary.numericStats :
               result.summary.numericStats[col].count
                   = Cardinality(ParseableRows(col))

\* C8 as amended: the summary reduce returns is summarize(dataset) for every
\* dataset; for a non-empty dataset its totalRecords is len(dataset) and its
\* statistics count the values of every record, and for the empty dataset it
\* is the empty object, which has no totalRecords.
C8_SummaryOfWholeDatasetUnlessEmpty ==
    Reduced =>
        /\ result.summary = generateDataSummary(data)
        /\ IF Len(data) = 0
           THEN DOMAIN result.summary = {}
           ELSE /\ result.summary.totalRecords = Len(data)
                /\ \A col \in DOMAIN result.summary.numericStats :
                       result.summary.numericStats[col].count
                           = Cardinality(ParseableRows(col))

\* the statistics count more values than there are sampled records
C8_Witness ==
    /\ Reduced
    /\ Len(data) > SmallDataLimit
    /\ \E col \in DOMAIN result.summary.numericStats :
           result.summary.numericStats[col].count > result.sampleSize

\* C9: numericStats has an entry for exactly the numeric columns with at
\* least one value, in the whole dataset, that parses as a number; its count
\* is the number of those values, between 1 and totalRecords, and its min
\* and max are the least and greatest of them.
C9_NumericStatsOverAllRecords ==
    (Summarized /\ Len(data) >= 1) =>
        /\ DOMAIN result.numericStats =
               {col \in SeqRange(result.numericColumns) : ParseableRows(col) # {}}
        /\ \A col \in DOMAIN result.numericStats :
               LET stat == result.numericStats[col]
                   nums == {ParseFloat(Get(data[i], col)).num : i \in ParseableRows(col)}
               IN  /\ stat.count = Cardinality(ParseableRows(col))
                   /\ 1 <= stat.count /\ stat.count <= result.totalRecords
                   /\ stat.min <= stat.max
                   /\ stat.min \in nums /\ stat.max \in nums
                   /\ \A v \in nums : stat.min <= v /\ v <= stat.max

\* the count and the minimum come from records after the first 10
C9_Witness ==
    /\ Summarized
    /\ \E col \in DOMAIN result.numericStats :
           /\ result.numericStats[col].count > ClassifySample
           /\ result.numericStats[col].min < result.numericStats[col].max
           /\ \A i \in 1..ClassifySample :
                  ParseFloat(Get(data[i], col)) # Number(result.numericStats[col].min)

\* the cells of column col in the first 10 records
FirstCells(col) == {Get(data[i], col) : i \in 1..Min2(ClassifySample, Len(data))}

\* C10: a column is a date column iff one of its cells in the first 10
\* records matches a date pattern; otherwise numeric iff one of those cells
\* is non-empty and parses as a number; otherwise categorical.  Later
\* records play no part, and an empty sample is categorical.
C10_ClassificationPriority ==
    /\ ~isDateColumn(<<>>) /\ ~isNumericColumn(<<>>)
    /\ (Summarized /\ Len(data) >= 1) =>
           \A k \in 1..Len(result.columns) :
               LET col       == result.columns[k]
                   isDate    == \E v \in FirstCells(col) : MatchesDatePattern(v)
                   isNumeric == \E v \in FirstCells(col) :
                                    v # <<>> /\ ~IsNaN(ParseFloat(v))
               IN  /\ col \in SeqRange(result.dateColumns) <=> isDate
                   /\ col \in SeqRange(result.numericColumns) <=> (~isDate /\ isNumeric)
                   /\ col \in SeqRange(result.categoricalColumns)
                          <=> (~isDate /\ ~isNumeric)

\* a categorical column whose 11th record holds a date or a number
C10_Witness ==
    /\ Summarized
    /\ Len(data) > ClassifySample
    /\ \E k \in 1..Len(result.categoricalColumns) :
           LET cell == Get(data[ClassifySample + 1], result.categoricalColumns[k])
           IN  MatchesDatePattern(cell) \/ IsNumericValue(cell)

\* C11: an empty dataset never fails.  summarize returns the empty object
\* without throwing, and reduce returns without throwing, with sampleSize 0,
\* no sampled records and the empty summary.
C11_EmptyDatasetNeverFails ==
    (shape = "rows" /\ Len(data) = 0 /\ pc # "start") =>
        /\ pc = "done"
        /\ op = "generateDataSummary" => DOMAIN result = {}
        /\ op = "processDataForAI" =>
               /\ result.sampleSize = 0
               /\ Len(result.fullData) = 0
               /\ DOMAIN result.summary = {}

\* reduce has returned from a call on the empty dataset
C11_Witness ==
    /\ shape = "rows" /\ Len(data) = 0
    /\ pc = "done" /\ op = "processDataForAI"
    /\ result.sampleSize = 0

\* C12 as stated: when the dataset argument is not a sequence of mappings,
\* reduce and summarize fail with InvalidInputError and return no result.
C12_InvalidInputFailsFast ==
    (shape # "rows" /\ pc # "start") =>
        /\ pc = "threw"
        /\ result = <<"InvalidInputError">>

\* forecast has returned from a call on the series
Forecasted == pc = "done" /\ op = "generateSimpleForecast"

IsNull(value) == "null" \in DOMAIN value

\* how many elements of the series are usable: numeric and above 0
UsableCount == Cardinality({i \in 1..Len(series) : Usable(ForecastValue(series[i]))})

\* C13: forecast returns null exactly when the series has fewer than 2
\* elements or fewer than 2 usable values; in every other case it returns a
\* result with forecast, trend, confidence, lastValue and periods.
\* forecast([5], 3) is null.
C13_NullExactlyWhenTooFewValues ==
    Forecasted =>
        /\ IsNull(result) <=> (Len(series) < 2 \/ UsableCount < 2)
        /\ ~IsNull(result) =>
               DOMAIN result = {"forecast", "trend", "confidence", "lastValue", "periods"}
        /\ series = <<NumberElement(Whole(5))>> => IsNull(result)

\* a series of 2 or more elements, fewer than 2 of them usable, gives null
C13_Witness ==
    /\ Forecasted
    /\ Len(series) >= 2 /\ UsableCount = 1
    /\ IsNull(result)

\* the fractions a and b are the same number
SameFraction(a, b) == a.num * b.den = b.num * a.den

\* C14: with n >= 2 usable values, trend is the average of
\* usable[floor(n/2)..n-1] less the average of usable[0..floor(n/2)-1],
\* lastValue is the last usable value, and forecast has exactly periods
\* elements, element i being max(0, lastValue + trend * i), none negative.
\* [100,120,110,130,140,150,160,170] with periods 3 gives trend 40,
\* lastValue 170 and forecast [210, 250, 290].
C14_TrendAndProjection ==
    (Forecasted /\ ~IsNull(result)) =>
        LET usable    == UsableValues(series)
            n         == Len(usable)
            firstIdx  == 1..(n \div 2)
            secondIdx == ((n \div 2) + 1)..n
            firstSum  == SumRange(usable, 1, n \div 2)
            secondSum == SumRange(usable, (n \div 2) + 1, n)
            trend     == [num |-> (secondSum * Cardinality(firstIdx))
                                      - (firstSum * Cardinality(secondIdx)),
                          den |-> Cardinality(firstIdx) * Cardinality(secondIdx)]
        IN  /\ Cardinality(secondIdx) - Cardinality(firstIdx) \in {0, 1}
            /\ SameFraction(result.trend, trend)
            /\ result.lastValue = usable[n]
            /\ Len(result.forecast) = periods
            /\ \A i \in 1..periods :
                   LET projected == [num |-> (usable[n] * trend.den) + (trend.num * i),
                                     den |-> trend.den]
                   IN  /\ result.forecast[i].den > 0
                       /\ result.forecast[i].num >= 0
                       /\ SameFraction(result.forecast[i],
                                       IF projected.num > 0 THEN projected
                                       ELSE [num |-> 0, den |-> 1])
            /\ (series = ExampleSeries /\ periods = 3) =>
                   /\ SameFraction(result.trend, [num |-> Whole(40).num, den |-> 1])
                   /\ result.lastValue = Whole(170).num
                   /\ \A i \in 1..3 :
                          SameFraction(result.forecast[i],
                                       [num |-> Whole(170 + (40 * i)).num, den |-> 1])

\* an odd number of usable values with a falling trend: the last forecast
\* is held at 0
C14_Witness ==
    /\ Forecasted /\ ~IsNull(result)
    /\ UsableCount % 2 = 1
    /\ periods = MaxPeriods
    /\ result.trend.num < 0
    /\ result.forecast[1].num > 0
    /\ result.forecast[periods].num = 0

\* C15: the confidence is high iff there are 12 or more usable values and
\* the trend is not 0, medium iff there are 6 or more and it is not high,
\* and low iff there are fewer than 6.  forecast([10,10,10,10,10,10], 2)
\* has trend 0, forecast [10, 10] and confidence medium.
C15_ConfidenceTiers ==
    (Forecasted /\ ~IsNull(result)) =>
        LET high == UsableCount >= 12 /\ result.trend.num # 0
        IN  /\ result.confidence \in {"low", "medium", "high"}
            /\ result.confidence = "high" <=> high
            /\ result.confidence = "medium" <=> (UsableCount >= 6 /\ ~high)
            /\ result.confidence = "low" <=> UsableCount < 6
            /\ (series = [i \in 1..6 |-> NumberElement(Whole(10))] /\ periods = 2) =>
                   /\ result.trend.num = 0
                   /\ \A i \in 1..2 :
                          SameFraction(result.forecast[i],
                                       [num |-> Whole(10).num, den |-> 1])
                   /\ result.confidence = "medium"

\* 12 or more usable values that are not all the same, with a trend of 0:
\* the confidence stays medium
C15_Witness ==
    /\ Forecasted /\ ~IsNull(result)
    /\ UsableCount >= 12
    /\ \E i \in 1..Len(series) : ForecastValue(series[i]) # ForecastValue(series[1])
    /\ result.trend.num = 0
    /\ result.confidence = "medium"

\* what one element contributes: a record the value of its first field that
\* parses as a number, or 0 when none does; a string or a number its numeric
\* parse
C16_Contribution(d) ==
    IF d.type = "object"
    THEN IF \E k \in 1..Len(d.fields) : ~IsNaN(ParseFloat(d.fields[k][2]))
         THEN ParseFloat(d.fields[CHOOSE k \in 1..Len(d.fields) :
                             /\ ~IsNaN(ParseFloat(d.fields[k][2]))
                             /\ \A j \in 1..(k - 1) :
                                    IsNaN(ParseFloat(d.fields[j][2]))][2])
         ELSE Number(0)
    ELSE IF d.type = "string" THEN ParseFloat(d.text)
    ELSE IF d.type = "number" THEN d.num
    ELSE NaN

\* the contributions that are numbers above 0, in the order of the series
C16_Positive ==
    LET all  == [i \in 1..Len(series) |-> C16_Contribution(series[i])]
        kept == SelectSeq(all, LAMBDA v : ~IsNaN(v) /\ v.num > 0)
    IN  [i \in 1..Len(kept) |-> kept[i].num]

\* C16: the trend, the last value and the usable count of a forecast are
\* those of the strictly positive contributions alone, in their original
\* order, a record contributing its first field that parses as a number.
C16_InputCoercion ==
    Forecasted =>
        LET positive == C16_Positive
            n        == Len(positive)
        IN  /\ n = UsableCount
            /\ IsNull(result) <=> (Len(series) < 2 \/ n < 2)
            /\ ~IsNull(result) =>
                   /\ result.lastValue = positive[n]
                   /\ SameFraction(result.trend, TrendOf(positive))
                   /\ result.confidence = ConfidenceOf(n, result.trend)

\* the last element is a record with two numeric fields, and lastValue is
\* the value of the first of them
C16_Witness ==
    /\ Forecasted /\ ~IsNull(result)
    /\ LET last == series[Len(series)]
       IN  /\ last.type = "object"
           /\ Cardinality({k \in 1..Len(last.fields) :
                               ~IsNaN(ParseFloat(last.fields[k][2]))}) >= 2
           /\ result.lastValue = ParseFloat(<<"3", ".", "5">>).num

\* the fixed keyword set
C18_Keywords ==
    { <<"f", "o", "r", "e", "c", "a", "s", "t">>,
      <<"p", "r", "e", "d", "i", "c", "t">>,
      <<"f", "u", "t", "u", "r", "e">>,
      <<"n", "e", "x", "t", " ", "m", "o", "n", "t", "h">>,
      <<"n", "e", "x", "t", " ", "q", "u", "a", "r", "t", "e", "r">>,
      <<"n", "e", "x", "t", " ", "y", "e", "a", "r">>,
      <<"t", "r", "e", "n", "d">>,
      <<"p", "r", "o", "j", "e", "c", "t", "i", "o", "n">>,
      <<"w", "i", "l", "l", " ", "b", "e">>,
      <<"g", "o", "i", "n", "g", " ", "t", "o">>,
      <<"e", "x", "p", "e", "c", "t">>,
      <<"l", "i", "k", "e", "l", "y">>,
      <<"f", "o", "r", "e", "c", "a", "s", "t", "i", "n", "g">>,
      <<"p", "r", "e", "d", "i", "c", "t", "i", "o", "n">>,
      <<"u", "p", "c", "o", "m", "i", "n", "g">>,
      <<"f", "o", "r", "t", "h", "c", "o", "m", "i", "n", "g">> }

\* C18: isForecastingIntent is true iff one of the 16 keywords is a substring
\* of the lower-cased question: the match is case-insensitive, and a
\* question with none of them gives false.
C18_KeywordSubstringMatch ==
    (pc = "done" /\ op = "isForecastingQuestion") =>
        /\ result \in BOOLEAN
        /\ result <=>
               \E word \in C18_Keywords :
                   \E from \in 1..(Len(question) - Len(word) + 1) :
                       ToLowerCase(Slice(question, from, from + Len(word) - 1)) = word
        /\ question = <<"W", "h", "a", "t", " ", "w", "i", "l", "l", " ", "s", "a", "l", "e", "s", " ", "b", "e", " ",
                       "n", "e", "x", "t", " ", "q", "u", "a", "r", "t", "e", "r", "?">>
               => result
        /\ question = <<"S", "h", "o", "w", " ", "m", "e", " ", "t", "o", "t", "a", "l", " ", "s", "a", "l", "e", "s">>
               => ~result

\* a question that holds a keyword only in upper case is a forecasting question
C18_Witness ==
    /\ pc = "done" /\ op = "isForecastingQuestion"
    /\ result = TRUE
    /\ \A word \in C18_Keywords : ~Includes(question, word)

C19_DailyLimitPerIp ==
    /\ \A key \in Keys : passed[key] <= MaxRequests
    /\ (response.status # 0 /\ response.before >= MaxRequests) =>
           response.status = 429

\* the positions 0, step, 2*step, ... of source, step = floor(len/cap), until
\* cap records are collected
C20_StrideOf(source) ==
    LET step  == Len(source) \div Cap
        count == Min2(Cap, (Len(source) + step - 1) \div step)
    IN  [k \in 1..count |-> source[(k - 1) * step + 1]]

\* C20: for a dataset of more than 100 records, summary.dateColumns is
\* non-empty iff some column of the first record is classified as date, and
\* the sampled records are the stride sample of the time-ordered copy in that
\* case and of the original order otherwise, followed by the last 20 records
\* and deduplicated.
C20_SamplingStrategy ==
    (Reduced /\ Len(data) > SmallDataLimit) =>
        /\ (result.summary.dateColumns # <<>>) <=> hasDateColumn(data)
        /\ hasDateColumn(data) <=>
               \E k \in 1..Len(data[1]) :
                   \E i \in 1..Min2(ClassifySample, Len(data)) :
                       MatchesDatePattern(data[i][k][2])
        /\ result.fullData =
               removeDuplicates(
                   C20_StrideOf(IF result.summary.dateColumns # <<>>
                                THEN SortByDate(data, env) ELSE data)
                   \o Last(data, RecentCount))

\* time-ordered sampling was used, and it picked other records than the
\* stride over the original order picks
C20_Witness ==
    /\ Reduced
    /\ Len(data) > SmallDataLimit
    /\ result.summary.dateColumns # <<>>
    /\ result.fullData # removeDuplicates(C20_StrideOf(data) \o Last(data, RecentCount))

\* the record has no field that parses as a date
C21_Undated(row) == \A k \in 1..Len(row) : IsNaN(DateParse(row[k][2], env))

\* the timestamp of the record: the time of its first field that parses as a
\* date
C21_Time(row) ==
    LET dates == {k \in 1..Len(row) : ~IsNaN(DateParse(row[k][2], env))}
    IN  DateParse(row[CHOOSE k \in dates : \A j \in dates : k <= j][2], env).num

\* the timestamps the records of the sample sort by, 0 for a record without
\* a parseable date
C21_Times(sample) ==
    Listed([k \in 1..Len(sample) |->
               IF C21_Undated(sample[k]) THEN 0 ELSE C21_Time(sample[k])])

\* the sample is in non-decreasing timestamp order, and two neighbours with
\* equal timestamps stand in the order some two occurrences of them have in
\* the dataset
C21_OrderedAndStable(sample) ==
    \A times \in {C21_Times(sample)} :
        \A k \in 1..(Len(times) - 1) :
            /\ times[k] <= times[k + 1]
            /\ (times[k] = times[k + 1] /\ sample[k] # sample[k + 1]) =>
                   \E p \in 1..Len(data) :
                       /\ data[p] = sample[k]
                       /\ \E q \in (p + 1)..Len(data) : data[q] = sample[k + 1]

\* C21 as stated: in time-ordered sampling the stride-sampled records are in
\* non-decreasing timestamp order, records with equal timestamps keep their
\* original relative order, and the records without a parseable date sort
\* to the earliest position: no dated record stands before them.
C21_UndatedSortEarliest ==
    (Reduced /\ Len(data) > SmallDataLimit /\ hasDateColumn(data)) =>
        \A sample \in {timeBasedSampling(data, Cap, env)} :
            /\ result.fullData = removeDuplicates(sample \o Last(data, RecentCount))
            /\ C21_OrderedAndStable(sample)
            /\ \A k \in 1..(Len(sample) - 1) :
                   C21_Undated(sample[k + 1]) => C21_Undated(sample[k])

\* C21 as amended: the stride-sampled records are in non-decreasing timestamp
\* order, records with equal timestamps keep their original relative order,
\* and a record without a parseable date sorts as timestamp 0: after every
\* record dated before 1970 and before every record dated after it.
C21_UndatedSortAsEpoch ==
    (Reduced /\ Len(data) > SmallDataLimit /\ hasDateColumn(data)) =>
        \A sample \in {timeBasedSampling(data, Cap, env)} :
            /\ result.fullData = removeDuplicates(sample \o Last(data, RecentCount))
            /\ C21_OrderedAndStable(sample)
            /\ \A k \in 1..(Len(sample) - 1) :
                   /\ (C21_Undated(sample[k + 1]) /\ ~C21_Undated(sample[k])) =>
                          C21_Time(sample[k]) <= 0
                   /\ (C21_Undated(sample[k]) /\ ~C21_Undated(sample[k + 1])) =>
                          C21_Time(sample[k + 1]) >= 0

\* a record dated before 1970 was sampled ahead of a record without a date,
\* and two different records of one date were sampled side by side
C21_Witness ==
    /\ Reduced /\ Len(data) > SmallDataLimit /\ hasDateColumn(data)
    /\ \E sample \in {timeBasedSampling(data, Cap, env)} :
           /\ \E k \in 1..(Len(sample) - 1) :
                  /\ C21_Undated(sample[k + 1])
                  /\ ~C21_Undated(sample[k])
                  /\ C21_Time(sample[k]) < 0
           /\ \E k \in 1..(Len(sample) - 1) :
                  /\ ~C21_Undated(sample[k]) /\ ~C21_Undated(sample[k + 1])
                  /\ C21_Time(sample[k]) = C21_Time(sample[k + 1])
                  /\ sample[k] # sample[k + 1]

\* the stride loop is running or has been left
C22_InLoop == stride.pc \in {"loop", "done"}

\* C22: for every dataset that reaches the sampling branch, in both
\* strategies, the step floor(len/cap) is at least 1, every pass of the stride
\* loop strictly increases the loop index, and the loop is left.
C22_StrideTerminates ==
    /\ [](C22_InLoop => stride.step >= 1 /\ stride.step = StepOf(stride.length, stride.sampleSize))
    /\ [][(stride.pc = "loop" /\ stride'.pc = "loop") => stride'.i > stride.i]_stride
    /\ <>(stride.pc \in {"small", "done"})

\* a time-ordered loop over more records than the cap was left after passes
\* of step 1
C22_Witness ==
    /\ stride.pc = "done" /\ stride.strategy = "timeBased"
    /\ stride.length > MaxSampleSize /\ stride.step = 1
    /\ stride.i >= stride.length

\* min(2000, length)
C23_CapOf(length) == IF MaxSampleSize < length THEN MaxSampleSize ELSE length

\* how many records the stride loop collects from a sequence of that length
C23_Collected(length) ==
    Len(StrideSample([i \in 1..length |-> i], C23_CapOf(length),
                     StepOf(length, C23_CapOf(length))))

\* C23 as stated: there is a dataset length above 100, the one in hand or
\* another, for which the stride loop collects fewer than cap = min(2000, len)
\* records.
C23_StrideUnderFills ==
    \E length \in StrideLengths \cup {stride.length} :
        length > SmallDataLimit /\ C23_Collected(length) < C23_CapOf(length)

\* C23, amended: for every dataset length above 100 the stride loop collects
\* exactly cap = min(2000, len) records, one on each of its first cap passes,
\* also where floor(len/cap) truncates unevenly.
C23_StrideFillsCap ==
    /\ C22_InLoop =>
           /\ stride.sampleSize = C23_CapOf(stride.length)
           /\ stride.sampled <= stride.sampleSize
           /\ stride.sampled < stride.sampleSize =>
                  stride.i = stride.sampled * stride.step
    /\ stride.pc = "done" => stride.sampled = stride.sampleSize

\* the loop was left with cap records for a length that the cap does not
\* divide
C23_Witness ==
    /\ stride.pc = "done" /\ stride.strategy = "stratified"
    /\ stride.length % stride.sampleSize # 0
    /\ stride.length > stride.sampleSize * stride.step
    /\ stride.sampled = stride.sampleSize

\* the sequence the stride loop runs over: the time-sorted copy or the dataset
C24_Source == IF hasDateColumn(data) THEN SortByDate(data, env) ELSE data

\* a record of the dataset is among the sampled records returned
C24_Appears(row) == \E j \in 1..Len(result.fullData) : result.fullData[j] = row

\* the positions, from 1, of the records behind the first 2000 and ahead of
\* the last 20
C24_Between == (MaxSampleSize + 1)..(Len(data) - RecentCount)

\* sample holds the records at positions 0, step, ..., (cap-1)*step of source
C24_AtStridePositions(sample, source) ==
    /\ Len(sample) = Cap
    /\ \A k \in 1..Cap : sample[k] = source[(k - 1) * (Len(data) \div Cap) + 1]
    /\ (MaxSampleSize < Len(data) /\ Len(data) < 2 * MaxSampleSize) =>
           /\ Len(data) \div Cap = 1
           /\ sample = SubSeq(source, 1, MaxSampleSize)

C24_WitnessEqual ==
    /\ Reduced /\ ~hasDateColumn(data)
    /\ Len(data) > MaxSampleSize /\ Len(data) < 2 * MaxSampleSize
    /\ \E p \in C24_Between : C24_Appears(data[p])

\* a request was rejected in this step
C25_Rejected == response' # response /\ response'.status = 429

\* a request was allowed in this step
C25_Allowed == passed' # passed

\* the counter of the request's own (IP, date) key, and the count of allowed
\* requests of that key, went up by 1 and nothing else changed
C25_OwnKeyOnly ==
    /\ response'.status = 200
    /\ \A key \in {KeyOf(response'.ip, now')} :
           /\ requestCounts' = [requestCounts EXCEPT ![key] = @ + 1]
           /\ passed' = [passed EXCEPT ![key] = @ + 1]

\* the timer's reset emptied the counters
C25_Reset == nextReset' # nextReset /\ requestCounts' = NoCounts

\* C25: a request rejected with 429 leaves every counter unchanged; an
\* allowed request increments the counter of its own (IP, date) key by
\* exactly 1 and no other counter; no other step but the reset changes a
\* counter, so between two resets a key's counter moves in step with the
\* number of requests allowed for it, and it never exceeds maxRequests.
C25_CountersFrame ==
    /\ [][/\ C25_Rejected => requestCounts' = requestCounts
          /\ C25_Allowed => C25_OwnKeyOnly
          /\ ~C25_Allowed => (requestCounts' = requestCounts \/ C25_Reset)]_vars
    /\ [](\A key \in Keys : /\ requestCounts[key] <= MaxRequests
                             /\ requestCounts[key] <= passed[key])

\* one IP was rejected at its limit while the other IP's counter of the same
\* day stands at one allowed request
C25_Witness ==
    /\ response.status = 429
    /\ requestCounts[KeyOf(response.ip, now)] = MaxRequests
    /\ \E ip \in Ips \ {response.ip} :
           /\ requestCounts[KeyOf(ip, now)] = 1
           /\ passed[KeyOf(ip, now)] = 1

\* the exchanges held by the memory registered for a session
C26_Registered(memories, objects, s) ==
    IF s \in DOMAIN memories THEN objects[memories[s]] ELSE <<>>

\* every exchange of a registered memory is of a chat on that session that
\* began after the session's latest clear
C26_OwnAndFresh ==
    \A s \in DOMAIN conversationMemories :
        \A k \in 1..Len(buffers[conversationMemories[s]]) :
            \A c \in {buffers[conversationMemories[s]][k]} :
                chats[c].session = s /\ c \notin cleared[s].began

\* a step changes what is registered for a session only as a chat on that
\* session saving its exchange, a clear of it, or a chat on it registering an
\* empty memory
C26_OwnSessionOnly ==
    \A s \in Sessions :
        C26_Registered(conversationMemories', buffers', s)
            # C26_Registered(conversationMemories, buffers, s) =>
            \/ \E c \in 1..Len(chats) :
                   /\ chats[c].session = s
                   /\ chats[c].pc = "invoking" /\ chats'[c].pc = "done"
                   /\ C26_Registered(conversationMemories', buffers', s) =
                          Append(C26_Registered(conversationMemories, buffers, s), c)
            \/ /\ s \notin DOMAIN conversationMemories'
               /\ cleared'[s].pending

\* a chat that begins on a session as the first one after a clear loads an
\* empty history
C26_EmptyAfterClear ==
    Len(chats') > Len(chats) =>
        \A c \in {Len(chats')} :
            cleared[chats'[c].session].pending => chats'[c].history = <<>>

\* C26: under any interleaving of chatWithAgent and clearConversationMemory
\* calls, a chat on one session never changes the memory of another session;
\* after a clear of s the memory registered for s never contains an exchange
\* of a chat that began before the clear, also when that chat saves its
\* context after the clear; and the next chat on s starts from an empty
\* history.
C26_ClearIsFinal ==
    /\ []C26_OwnAndFresh
    /\ [][C26_OwnSessionOnly /\ C26_EmptyAfterClear]_vars

\* a chat saved its exchange after its session was cleared, into the memory
\* it took when it began, while the session has a newer memory registered
\* that holds a later chat's exchange
C26_Witness ==
    \E c \in 1..Len(chats) :
        /\ chats[c].pc = "done" /\ chats[c].late
        /\ c \in {buffers[chats[c].memory][k] : k \in 1..Len(buffers[chats[c].memory])}
        /\ chats[c].session \in DOMAIN conversationMemories
        /\ conversationMemories[chats[c].session] # chats[c].memory
        /\ buffers[conversationMemories[chats[c].session]] # <<>>

============================================================================
